---- MODULE Spec2Model ----
(***************************************************************************)
(* Conxian Nexus (glass node): the Merkle state tracker (src/state) and    *)
(* the chain event processor (src/sync), as state machines.                *)
(*                                                                         *)
(* SHA-256 is modelled as a free constructor: the hash of a leaf string l  *)
(* is <<"H", l>> and the hash of the 64 bytes left||right is               *)
(* <<"H", left, right>>.  Two hashes are equal exactly when they were      *)
(* computed from the same input (collision freedom).  The 32 zero bytes    *)
(* are <<"Z">>, which is no hash of a modelled input.                      *)
(*                                                                         *)
(* A hash rendered by format!("0x{}", hex::encode(h)) is <<"0x", h>>.      *)
(***************************************************************************)
EXTENDS Integers, Sequences, FiniteSets, TLC

VARIABLES
    leaves,        \* NexusState.leaves
    state_root,    \* NexusState.state_root
    twin_leaves,   \* a second, independently built NexusState: its leaves
    twin_root,     \* ... and its state_root
    twin_pending,  \* leaves the first tracker received and the second not yet
    batch_len,     \* length of the first tracker's latest batch
    twin_batch_len,\* length of the second tracker's latest batch
    chain,         \* the upstream L1 chain: block at height h is chain[h]
    queue,         \* the mpsc channel of run()
    poller,        \* the poller task's position inside poll_stacks_node
    polls,         \* number of poll cycles started so far
    db_blocks,     \* table stacks_blocks: hash -> row
    db_txs,        \* table stacks_transactions: tx_id -> row
    redis_root,    \* redis key nexus:state_root
    redis_up,      \* whether the redis server answers
    last_result,   \* what the most recent handle_event call returned
    safety_mode,   \* redis key nexus:safety_mode: <<>> when absent, else <<v>>
    drift,         \* redis key nexus:drift: <<>> when absent, else <<v>>
    events,        \* the messages published on the channel nexus:events
    heartbeat,     \* the heartbeat task's position inside run_heartbeat
    last_check,    \* what the most recent check or status query did
    last_trigger,  \* which check made the latest successful trigger
    drift_call,    \* a call of calculate_drift: its arguments and result
    latest_event_time_cache, \* NexusExecutor.latest_event_time_cache
    calls,         \* the validate_transaction calls in flight, per handler
    last_validation, \* what the most recent validate_transaction returned
    sweep,         \* the most recent execute_rebalance: vaults and signatures
    leaves_lock,   \* owner of the Mutex of NexusState.leaves
    threads,       \* the tracker calls in flight, per thread
    completed_log,  \* the leaf log after the last completed write
    last_answer,    \* what the tracker call that just returned answered
    held_proof,     \* what a client holds: a proof or a generate_proof answer
    status_query    \* a get_status request in flight: what it has read

trackerVars == <<leaves, state_root>>
twinVars    == <<twin_leaves, twin_root, twin_pending, batch_len, twin_batch_len>>
syncVars    == <<chain, queue, poller, polls, db_blocks, db_txs, redis_root,
                 redis_up, last_result>>
safetyVars  == <<safety_mode, drift, events, heartbeat, last_check,
                 last_trigger, drift_call>>
execVars    == <<latest_event_time_cache, calls, last_validation, sweep>>
lockVars    == <<leaves_lock, threads, completed_log, last_answer>>
clientVars  == <<held_proof, status_query>>
vars        == <<leaves, state_root, twin_leaves, twin_root, twin_pending,
                 batch_len, twin_batch_len,
                 chain, queue, poller, polls, db_blocks, db_txs, redis_root,
                 redis_up, last_result,
                 safety_mode, drift, events, heartbeat, last_check,
                 last_trigger, drift_call,
                 latest_event_time_cache, calls, last_validation, sweep,
                 leaves_lock, threads, completed_log, last_answer,
                 held_proof, status_query>>

---------------------------------------------------------------------------
(* Bounds of the model *)

\* longest leaf log of the tracker-only specification
MaxLeaves == 5
\* longest batch handed to update_state_batch in the tracker-only specification
MaxBatch == 2

\* leaf values of the tracker-only specification
LeafValues == {"a", "b"}
\* a value that is never appended
AbsentValue == "non-existent"

SeqsUpTo(S, n) == UNION {[1..k -> S] : k \in 0..n}

---------------------------------------------------------------------------
(* Hashing and hash rendering *)

Sha256(bytes) == <<"H", bytes>>
Sha256Pair(left, right) == <<"H", left, right>>
Zero32 == <<"Z">>

\* format!("0x{}", hex::encode(h))
Fmt0x(h) == <<"0x", h>>

\* hex::decode(s.trim_start_matches("0x")): Ok(bytes) or Err.  A rendered
\* hash is <<prefix, h>>, with the prefix "0x" or none; any other string
\* (odd length, a character that is no hex digit) does not decode
HexDecode(s) ==
    IF Len(s) = 2 /\ s[1] \in {"0x", ""} THEN [ok |-> TRUE, bytes |-> s[2]]
    ELSE [ok |-> FALSE, bytes |-> Zero32]

---------------------------------------------------------------------------
(* Merkle state tracker: src/src/state/mod.rs *)

\* the root of NexusState::new() and of an empty leaf log
initial_root == Fmt0x(Zero32)

\* leaves.iter().map(|l| sha256(l.as_bytes())).collect()
LeafHashes(lv) == [i \in 1..Len(lv) |-> Sha256(lv[i])]

\* one pass of `for chunk in current_level.chunks(2)`
RECURSIVE NextLevel(_)
NextLevel(level) ==
    IF level = <<>> THEN <<>>
    ELSE IF Len(level) = 1
         THEN <<Sha256Pair(level[1], level[1])>>  \* Duplicate last leaf if odd
         ELSE <<Sha256Pair(level[1], level[2])>>
                \o NextLevel(SubSeq(level, 3, Len(level)))

\* `while current_level.len() > 1 { ... current_level = next_level }`
RECURSIVE FoldLevels(_)
FoldLevels(level) ==
    IF Len(level) > 1 THEN FoldLevels(NextLevel(level)) ELSE level

calculate_root(lv) ==
    IF lv = <<>> THEN initial_root
    ELSE Fmt0x(FoldLevels(LeafHashes(lv))[1])

\* a mutant: the root is computed over the new batch only
RootOfBatchOnly(old, data) == calculate_root(data)

\* a mutant: the root is computed before the batch is pushed
RootBeforeAppend(old, data) == calculate_root(old)

\* update_state_batch recomputes the root over the entire leaf log
RootAfterAppend(old, data) == calculate_root(old \o data)

\* update_state_batch(data): the tracker's leaves and root afterwards
\* (last_updated, a wall-clock time nothing reads, is left out)
update_state_batch(lv, data) ==
    [leaves |-> lv \o data, state_root |-> RootAfterAppend(lv, data)]

\* update_state(data, _) is update_state_batch(&[data])
update_state(lv, item) == update_state_batch(lv, <<item>>)

\* set_initial_leaves(new_leaves)
set_initial_leaves(new_leaves) ==
    [leaves |-> new_leaves, state_root |-> calculate_root(new_leaves)]

\* leaves.iter().position(|l| l == key): 0-based, or -1 for None
Position(lv, key) ==
    IF \E i \in 1..Len(lv) : lv[i] = key
    THEN (CHOOSE i \in 1..Len(lv) :
              lv[i] = key /\ \A j \in 1..(i - 1) : lv[j] # key) - 1
    ELSE -1

\* a mutant: an odd trailing node takes its left neighbour as sibling
SiblingIdxNoSelf(idx, n) ==
    IF idx % 2 = 0
    THEN (IF idx + 1 < n THEN idx + 1 ELSE (IF idx > 0 THEN idx - 1 ELSE idx))
    ELSE idx - 1

\* sibling_idx of generate_merkle_proof (0-based), n = current_level.len()
SiblingIdx(idx, n) ==
    IF idx % 2 = 0
    THEN (IF idx + 1 < n THEN idx + 1 ELSE idx)
    ELSE idx - 1

\* the while loop of generate_merkle_proof: the path from `level` upwards
RECURSIVE ProofPath(_, _)
ProofPath(level, idx) ==
    IF Len(level) > 1
    THEN <<[hash    |-> Fmt0x(level[SiblingIdx(idx, Len(level)) + 1]),
            is_left |-> (idx % 2 = 0)]>>
           \o ProofPath(NextLevel(level), idx \div 2)
    ELSE <<>>

None == [none |-> TRUE]

\* generate_merkle_proof(key) of a tracker holding (lv, root)
generate_merkle_proof(lv, root, key) ==
    IF Position(lv, key) < 0 THEN None
    ELSE [leaf |-> key,
          path |-> ProofPath(LeafHashes(lv), Position(lv, key)),
          root |-> root]

\* the for loop of verify_merkle_proof from step i on:
\* [ok |-> FALSE] once a sibling does not decode
RECURSIVE VerifyFold(_, _, _)
VerifyFold(path, i, current_hash) ==
    IF i > Len(path) THEN [ok |-> TRUE, hash |-> current_hash]
    ELSE LET sib == HexDecode(path[i].hash) IN
         IF ~sib.ok THEN [ok |-> FALSE, hash |-> current_hash]
         ELSE VerifyFold(path, i + 1,
                         IF path[i].is_left
                         THEN Sha256Pair(current_hash, sib.bytes)
                         ELSE Sha256Pair(sib.bytes, current_hash))

\* a mutant: the folded hash is not compared with proof.root
VerifyPathOnly(proof) ==
    LET r == VerifyFold(proof.path, 1, Sha256(proof.leaf)) IN
    r.ok

\* a mutant: the folded hash is compared with the tracker's root
VerifyAgainstTracker(proof) ==
    LET r == VerifyFold(proof.path, 1, Sha256(proof.leaf)) IN
    r.ok /\ Fmt0x(r.hash) = state_root

verify_merkle_proof(proof) ==
    LET r == VerifyFold(proof.path, 1, Sha256(proof.leaf)) IN
    r.ok /\ Fmt0x(r.hash) = proof.root

---------------------------------------------------------------------------
(* The tracker-only specification: any sequence of update_state_batch and  *)
(* set_initial_leaves calls on one tracker, and a second tracker that      *)
(* receives the same leaves in batches split another way.                  *)

TrackerInit ==
    /\ leaves = <<>>
    /\ state_root = initial_root

TwinInit ==
    /\ twin_leaves = <<>>
    /\ twin_root = initial_root
    /\ twin_pending = <<>>
    /\ batch_len = 0
    /\ twin_batch_len = 0

\* state.update_state_batch(data) on the first tracker
UpdateStateBatch ==
    \E data \in SeqsUpTo(LeafValues, MaxBatch) :
        /\ Len(leaves) + Len(data) <= MaxLeaves
        /\ leaves' = update_state_batch(leaves, data).leaves
        /\ state_root' = update_state_batch(leaves, data).state_root
        /\ twin_pending' = twin_pending \o data
        /\ batch_len' = Len(data)
        /\ UNCHANGED <<twin_leaves, twin_root, twin_batch_len>>
        /\ UNCHANGED <<syncVars, safetyVars, execVars, lockVars, clientVars>>

\* the second tracker receives the next k pending leaves as one batch
TwinUpdateStateBatch ==
    \E k \in 1..Len(twin_pending) :
        /\ twin_leaves' = update_state_batch(twin_leaves, SubSeq(twin_pending, 1, k)).leaves
        /\ twin_root' = update_state_batch(twin_leaves, SubSeq(twin_pending, 1, k)).state_root
        /\ twin_pending' = SubSeq(twin_pending, k + 1, Len(twin_pending))
        /\ twin_batch_len' = k
        /\ UNCHANGED <<trackerVars, batch_len>>
        /\ UNCHANGED <<syncVars, safetyVars, execVars, lockVars, clientVars>>

\* state.set_initial_leaves(new_leaves), on both trackers
SetInitialLeaves ==
    \E new_leaves \in SeqsUpTo(LeafValues, MaxLeaves) :
        /\ twin_pending = <<>>
        /\ leaves' = set_initial_leaves(new_leaves).leaves
        /\ state_root' = set_initial_leaves(new_leaves).state_root
        /\ twin_leaves' = set_initial_leaves(new_leaves).leaves
        /\ twin_root' = set_initial_leaves(new_leaves).state_root
        /\ batch_len' = 0
        /\ twin_batch_len' = 0
        /\ UNCHANGED twin_pending
        /\ UNCHANGED <<syncVars, safetyVars, execVars, lockVars, clientVars>>

---------------------------------------------------------------------------
(* Chain event processor: src/src/sync/mod.rs                              *)
(*                                                                         *)
(* The upstream chain is well formed: the block at height h has its own    *)
(* hash and its transactions have ids no other transaction has.  A block's *)
(* burn_block_time is whatever the upstream reports: it grows with the     *)
(* height (ChainGrows) or it does not (ChainGrowsSkewed).                  *)

\* highest upstream height
MaxHeight == 2
\* numbers of transactions an upstream block carries
TxCounts == {0, 1, 2}
\* poll cycles the poller task starts
MaxPolls == 2
\* capacity of the mpsc channel (100 in run())
QueueCap == 3
\* block timestamps the upstream reports
Times == {1, 2}

BlockHash(h) == "blk" \o ToString(h)
TxId(h, i) == "tx" \o ToString(h) \o "_" \o ToString(i)

\* GET /extended/v1/tx/block_height/{h}: the results array, as the poller
\* turns it into TransactionData
UpstreamTxs(h) ==
    [i \in 1..chain[h].ntx |->
        [tx_id |-> TxId(h, i), sender |-> "SP1", payload |-> "token_transfer"]]

BurnBlockEvent(h) ==
    [kind |-> "BurnBlock", hash |-> BlockHash(h), height |-> h,
     txs |-> <<>>, timestamp |-> chain[h].ts]

MicroblockEvent(h, txs) ==
    [kind |-> "Microblock", hash |-> BlockHash(h), height |-> h,
     txs |-> txs, timestamp |-> chain[h].ts]

NoEvent == [kind |-> "none"]
PollerIdle == [pc |-> "idle", height |-> 0, latest |-> 0, micro |-> NoEvent]
NoResult == [event |-> NoEvent, ok |-> FALSE]

\* SELECT MAX(height) FROM stacks_blocks, unwrap_or(0)
ProcessedHeight(blocks) ==
    IF DOMAIN blocks = {} THEN 0
    ELSE CHOOSE m \in {blocks[k].height : k \in DOMAIN blocks} :
             \A k \in DOMAIN blocks : blocks[k].height <= m

\* a mutant: ON CONFLICT (hash) DO UPDATE
UpsertBlock(blocks, hash, row) ==
    [k \in DOMAIN blocks \cup {hash} |-> IF k = hash THEN row ELSE blocks[k]]

\* INSERT INTO stacks_blocks ... ON CONFLICT (hash) DO NOTHING
InsertBlock(blocks, hash, row) ==
    IF hash \in DOMAIN blocks THEN blocks
    ELSE [k \in DOMAIN blocks \cup {hash} |-> IF k = hash THEN row ELSE blocks[k]]

\* INSERT INTO stacks_transactions ... ON CONFLICT (tx_id) DO NOTHING
InsertTx(table, tx_id, row) ==
    IF tx_id \in DOMAIN table THEN table
    ELSE [k \in DOMAIN table \cup {tx_id} |-> IF k = tx_id THEN row ELSE table[k]]

\* `for tx_data in &data.txs { INSERT ... }` from transaction i on
RECURSIVE InsertTxs(_, _, _)
InsertTxs(table, data, i) ==
    IF i > Len(data.txs) THEN table
    ELSE InsertTxs(InsertTx(table, data.txs[i].tx_id,
                            [block_hash |-> data.hash,
                             sender     |-> data.txs[i].sender,
                             payload    |-> data.txs[i].payload,
                             created_at |-> data.timestamp]),
                   data, i + 1)

\* a mutant: the promotion covers every soft block, whatever its height
PromoteAll(blocks, height) ==
    [k \in DOMAIN blocks |->
        IF blocks[k].state = "soft"
        THEN [blocks[k] EXCEPT !.state = "hard"]
        ELSE blocks[k]]

\* UPDATE stacks_blocks SET state = 'hard' WHERE height <= $1 AND state = 'soft'
Promote(blocks, height) ==
    [k \in DOMAIN blocks |->
        IF blocks[k].height <= height /\ blocks[k].state = "soft"
        THEN [blocks[k] EXCEPT !.state = "hard"]
        ELSE blocks[k]]

\* a mutant: the transaction ids are collected in reverse order
TxIdsReversed(data) ==
    [i \in 1..Len(data.txs) |-> data.txs[Len(data.txs) + 1 - i].tx_id]

\* data.txs.iter().map(|t| t.tx_id.clone()).collect()
TxIdsOf(data) == [i \in 1..Len(data.txs) |-> data.txs[i].tx_id]

\* a mutant: the microblock row replaces a row stored under the same hash
MicroblockBlocksReplacing(blocks, data) ==
    UpsertBlock(blocks, data.hash,
                [height |-> data.height, type |-> "microblock",
                 state |-> "soft", created_at |-> data.timestamp])

\* the committed database transaction of process_microblock
MicroblockBlocks(blocks, data) ==
    InsertBlock(blocks, data.hash,
                [height |-> data.height, type |-> "microblock",
                 state |-> "soft", created_at |-> data.timestamp])

\* the committed database transaction of process_burn_block
BurnBlockBlocks(blocks, data) ==
    InsertBlock(Promote(blocks, data.height), data.hash,
                [height |-> data.height, type |-> "burn_block",
                 state |-> "hard", created_at |-> data.timestamp])

\* SELECT tx_id FROM stacks_transactions ORDER BY created_at ASC: every
\* order of the rows in S with created_at ascending (rows with the same
\* created_at come in an order the database chooses)
RECURSIVE LoadOrders(_, _)
LoadOrders(table, S) ==
    IF S = {} THEN {<<>>}
    ELSE LET firsts == {x \in S : \A y \in S : table[x].created_at <= table[y].created_at}
         IN UNION {{<<x>> \o s : s \in LoadOrders(table, S \ {x})} : x \in firsts}

SyncInit ==
    /\ chain = <<>>
    /\ queue = <<>>
    /\ poller = PollerIdle
    /\ polls = 0
    /\ db_blocks = <<>>
    /\ db_txs = <<>>
    /\ redis_root = initial_root
    /\ redis_up = TRUE
    /\ last_result = NoResult

---------------------------------------------------------------------------
(* The actions of the chain event processor *)

\* the upstream chain gains a block whose reported time is in T
ChainGrowsWith(T) ==
    /\ Len(chain) < MaxHeight
    /\ \E n \in TxCounts, t \in T :
           chain' = Append(chain, [ntx |-> n, ts |-> t])
    /\ last_result' = NoResult
    /\ UNCHANGED <<queue, poller, polls, db_blocks, db_txs, redis_root, redis_up>>
    /\ UNCHANGED <<trackerVars, twinVars, safetyVars, execVars, lockVars, clientVars>>

\* the new block's burn_block_time is later than every earlier block's
ChainGrows == ChainGrowsWith({Len(chain) + 1})

\* the new block reports any time: burn block times need not grow with the
\* height, and a missing burn_block_time_iso is replaced by Utc::now()
ChainGrowsSkewed == ChainGrowsWith(Times)

\* the redis server goes down or comes back
RedisFlips ==
    /\ redis_up' = ~redis_up
    /\ last_result' = NoResult
    /\ UNCHANGED <<chain, queue, poller, polls, db_blocks, db_txs, redis_root>>
    /\ UNCHANGED <<trackerVars, twinVars, safetyVars, execVars, lockVars, clientVars>>

\* the poller's position after it is done with `height`
PollerAfter(height, latest) ==
    IF height < latest
    THEN [pc |-> "fetch", height |-> height + 1, latest |-> latest, micro |-> NoEvent]
    ELSE PollerIdle

\* poll_stacks_node, steps 1 and 2: the latest upstream height and the
\* processed height; an RPC or database error ends the cycle
PollBegin ==
    /\ poller.pc = "idle"
    /\ polls < MaxPolls
    /\ polls' = polls + 1
    /\ \E rpc_ok \in BOOLEAN :
           poller' = IF rpc_ok
                     THEN PollerAfter(ProcessedHeight(db_blocks), Len(chain))
                     ELSE PollerIdle
    /\ last_result' = NoResult
    /\ UNCHANGED <<chain, queue, db_blocks, db_txs, redis_root, redis_up>>
    /\ UNCHANGED <<trackerVars, twinVars, safetyVars, execVars, lockVars, clientVars>>

\* one iteration of the height loop up to tx.send(BurnBlock).await
PollFetch ==
    /\ poller.pc = "fetch"
    /\ \/ \* send().await? fails on the block or on the transactions: Err
          /\ poller' = PollerIdle
          /\ UNCHANGED queue
       \/ \* the block request answers with an error status: continue
          /\ poller' = PollerAfter(poller.height, poller.latest)
          /\ UNCHANGED queue
       \/ \* the block is fetched; the transaction list may answer with an
          \* error status, which leaves txs empty
          /\ Len(queue) < QueueCap
          /\ queue' = Append(queue, BurnBlockEvent(poller.height))
          /\ \E txs \in {UpstreamTxs(poller.height), <<>>} :
                 poller' = IF txs # <<>>
                           THEN [poller EXCEPT !.pc = "send_micro",
                                    !.micro = MicroblockEvent(poller.height, txs)]
                           ELSE PollerAfter(poller.height, poller.latest)
    /\ last_result' = NoResult
    /\ UNCHANGED <<chain, polls, db_blocks, db_txs, redis_root, redis_up>>
    /\ UNCHANGED <<trackerVars, twinVars, safetyVars, execVars, lockVars, clientVars>>

\* tx.send(micro_event).await
PollSendMicro ==
    /\ poller.pc = "send_micro"
    /\ Len(queue) < QueueCap
    /\ queue' = Append(queue, poller.micro)
    /\ poller' = PollerAfter(poller.height, poller.latest)
    /\ last_result' = NoResult
    /\ UNCHANGED <<chain, polls, db_blocks, db_txs, redis_root, redis_up>>
    /\ UNCHANGED <<trackerVars, twinVars, safetyVars, execVars, lockVars, clientVars>>

\* persist_root_to_redis(root).await.ok(): the SET fails silently when the
\* server does not answer
PersistRoot(root) ==
    redis_root' = IF redis_up THEN root ELSE redis_root

\* a mutant: the leaves are appended before the commit is known to succeed
ProcessMicroblockAppendFirst(data) ==
    \/ /\ last_result' = [event |-> data, ok |-> FALSE]
       /\ leaves' = update_state_batch(leaves, TxIdsOf(data)).leaves
       /\ state_root' = update_state_batch(leaves, TxIdsOf(data)).state_root
       /\ UNCHANGED <<db_blocks, db_txs, redis_root>>
    \/ /\ db_blocks' = MicroblockBlocks(db_blocks, data)
       /\ db_txs' = InsertTxs(db_txs, data, 1)
       /\ leaves' = update_state_batch(leaves, TxIdsOf(data)).leaves
       /\ state_root' = update_state_batch(leaves, TxIdsOf(data)).state_root
       /\ PersistRoot(update_state_batch(leaves, TxIdsOf(data)).state_root)
       /\ last_result' = [event |-> data, ok |-> TRUE]

\* handle_event(Microblock(data)) -> process_microblock
\* (the DEL of cache:vaults:all is left out: nothing here fills that cache)
ProcessMicroblock(data) ==
    \/ \* begin, an INSERT or the commit fails: nothing is stored
       /\ last_result' = [event |-> data, ok |-> FALSE]
       /\ UNCHANGED <<db_blocks, db_txs, redis_root, trackerVars>>
    \/ /\ db_blocks' = MicroblockBlocks(db_blocks, data)
       /\ db_txs' = InsertTxs(db_txs, data, 1)
       /\ leaves' = update_state_batch(leaves, TxIdsOf(data)).leaves
       /\ state_root' = update_state_batch(leaves, TxIdsOf(data)).state_root
       /\ PersistRoot(update_state_batch(leaves, TxIdsOf(data)).state_root)
       /\ last_result' = [event |-> data, ok |-> TRUE]

\* a mutant: the burn block's hash is appended to the Merkle leaf log
ProcessBurnBlockHashLeaf(data) ==
    \/ /\ last_result' = [event |-> data, ok |-> FALSE]
       /\ UNCHANGED <<db_blocks, db_txs, redis_root, trackerVars>>
    \/ /\ db_blocks' = BurnBlockBlocks(db_blocks, data)
       /\ leaves' = update_state(leaves, data.hash).leaves
       /\ state_root' = update_state(leaves, data.hash).state_root
       /\ PersistRoot(update_state(leaves, data.hash).state_root)
       /\ last_result' = [event |-> data, ok |-> TRUE]
       /\ UNCHANGED db_txs

\* handle_event(BurnBlock(data)) -> process_burn_block
ProcessBurnBlock(data) ==
    \/ /\ last_result' = [event |-> data, ok |-> FALSE]
       /\ UNCHANGED <<db_blocks, db_txs, redis_root, trackerVars>>
    \/ /\ db_blocks' = BurnBlockBlocks(db_blocks, data)
       /\ PersistRoot(state_root)
       /\ last_result' = [event |-> data, ok |-> TRUE]
       /\ UNCHANGED <<db_txs, trackerVars>>

\* a mutant: the applier loop ends at the first event that fails (the
\* queue is closed and what it held is lost)
HandleEventUntilError ==
    /\ queue # <<>>
    /\ \/ /\ queue' = Tail(queue)
          /\ IF Head(queue).kind = "Microblock"
             THEN ProcessMicroblock(Head(queue))
             ELSE ProcessBurnBlock(Head(queue))
          /\ last_result'.ok
       \/ /\ queue' = <<>>
          /\ last_result' = [event |-> Head(queue), ok |-> FALSE]
          /\ UNCHANGED <<db_blocks, db_txs, redis_root, trackerVars>>
    /\ UNCHANGED <<chain, poller, polls, redis_up>>
    /\ UNCHANGED <<twinVars, safetyVars, execVars, lockVars, clientVars>>

\* the applier loop of run(): rx.recv() then handle_event(event)
HandleEvent ==
    /\ queue # <<>>
    /\ queue' = Tail(queue)
    /\ IF Head(queue).kind = "Microblock"
       THEN ProcessMicroblock(Head(queue))
       ELSE ProcessBurnBlock(Head(queue))
    /\ UNCHANGED <<chain, poller, polls, redis_up>>
    /\ UNCHANGED <<twinVars, safetyVars, execVars, lockVars, clientVars>>

\* the process restarts: main() builds a new tracker, load_initial_state
\* replays the stored transaction ids, then run() starts with a new channel
LoadInitialState ==
    /\ \E order \in LoadOrders(db_txs, DOMAIN db_txs) :
           /\ leaves' = set_initial_leaves(order).leaves
           /\ state_root' = set_initial_leaves(order).state_root
           /\ PersistRoot(set_initial_leaves(order).state_root)
    /\ queue' = <<>>
    /\ poller' = PollerIdle
    /\ last_result' = NoResult
    /\ UNCHANGED <<chain, polls, db_blocks, db_txs, redis_up>>
    /\ UNCHANGED <<twinVars, safetyVars, execVars, lockVars, clientVars>>

---------------------------------------------------------------------------
(* Drift / circuit-breaker monitor: src/src/safety/mod.rs                  *)
(*                                                                         *)
(* The monitor reads the upstream height over RPC, the processed height    *)
(* from stacks_blocks and the gateway's counters over HTTP; what these     *)
(* answer is an input of each check.  A redis key is <<>> when absent and  *)
(* <<v>> when it holds v.  MULTI/EXEC pipelines apply all their commands   *)
(* or none.                                                                *)

\* heartbeat ticks the monitor runs
MaxTicks == 2
\* highest height the event applier stores while the monitor runs
MaxStored == 2
\* highest near height the upstream RPC reports to the monitor
MaxExternal == 5
\* largest small argument of a calculate_drift call
MaxDriftArg == 6

\* NexusSafety::new: max_drift
max_drift == 2
\* the synthetic drift of a telemetry trip
TelemetryDrift == 999
\* the sample size the circuit breaker needs to exceed
MinVerifications == 100

\* heights the RPC reports: near the stored heights, or far ahead of them
\* (the node starts on an empty table long after the chain began)
ExternalHeights ==
    (0..MaxExternal) \cup {TelemetryDrift + p : p \in 0..MaxStored}

\* (verification_success, verification_failure) pairs the gateway reports
TelemetrySamples ==
    {<<0, 0>>, <<89, 11>>, <<50, 50>>, <<91, 10>>, <<90, 11>>, <<99, 11>>,
     <<0, 101>>, <<200, 0>>}

\* user addresses of exit status queries
Users == {"SP1", "SP2"}

\* arguments of calculate_drift calls
DriftArgs == (0..MaxDriftArg) \cup {98, 100, 102}

NoCheck == [kind |-> "none"]
NoCall == [current |-> 0, processed |-> 0, result |-> <<>>]

\* a mutant: the difference without saturation (abs_diff)
AbsDiff(current, processed) ==
    IF current >= processed THEN current - processed ELSE processed - current

\* current.saturating_sub(processed)
calculate_drift(current, processed) ==
    IF processed >= current THEN 0 ELSE current - processed

\* delta > self.max_drift
DriftExceeds(delta) == delta > max_drift

\* a mutant: a failure rate of exactly 10% trips
CircuitBreakerTripsAtTenth(success_count, failure_count) ==
    /\ success_count + failure_count > MinVerifications
    /\ 10 * failure_count >= success_count + failure_count

\* total_verifications > 100 and failure_rate > 0.10, the rate being
\* failure_count / total_verifications
CircuitBreakerTrips(success_count, failure_count) ==
    /\ success_count + failure_count > MinVerifications
    /\ 10 * failure_count > success_count + failure_count

\* redis GET of a key as bool: a missing key reads as false
RedisGetBool(key) == IF key = <<>> THEN FALSE ELSE key[1]

\* a mutant: an error of a check ends the loop
HeartbeatAfterPropagating(pc, ok) ==
    IF ~ok THEN "exited" ELSE IF pc = "health" THEN "telemetry" ELSE "health"

\* the loop of run_heartbeat: check_health, then ingest_gateway_telemetry,
\* then the next tick; an Err of either is logged
HeartbeatAfter(pc, ok) == IF pc = "health" THEN "telemetry" ELSE "health"

\* the heartbeat task moves on after a check that returned Ok or Err
HeartbeatGoesOn(ok) ==
    heartbeat' = [pc    |-> HeartbeatAfter(heartbeat.pc, ok),
                  ticks |-> IF heartbeat.pc = "health"
                            THEN heartbeat.ticks + 1 ELSE heartbeat.ticks]

\* the PUBLISH of trigger_safety_mode
TriggerPublishes(mode) == <<"safety_mode_triggered">>

\* a mutant: the trigger sets the flag and leaves the drift key alone
TriggerDriftKept(old, delta) == old

\* the SET nexus:drift of trigger_safety_mode
TriggerDrift(old, delta) == <<delta>>

\* trigger_safety_mode(delta), called by the check `origin`; rec is the
\* check's record
TriggerSafetyMode(delta, origin, rec) ==
    \E cmd_ok \in BOOLEAN :
        IF redis_up /\ cmd_ok
        THEN /\ safety_mode' = <<TRUE>>
             /\ drift' = TriggerDrift(drift, delta)
             /\ events' = events \o TriggerPublishes(safety_mode)
             /\ last_trigger' = origin
             /\ last_check' = [rec EXCEPT !.result = "ok"]
             /\ HeartbeatGoesOn(TRUE)
        ELSE \* no connection, or the pipeline fails: Err
             /\ last_check' = [rec EXCEPT !.result = "redis_error"]
             /\ HeartbeatGoesOn(FALSE)
             /\ UNCHANGED <<safety_mode, drift, events, last_trigger>>

\* clear_safety_mode_if_needed(delta)
ClearSafetyModeIfNeeded(rec) ==
    \E get_ok \in BOOLEAN, cmd_ok \in BOOLEAN :
        IF ~redis_up
        THEN \* no connection: Err
             /\ last_check' = [rec EXCEPT !.result = "redis_error"]
             /\ HeartbeatGoesOn(FALSE)
             /\ UNCHANGED <<safety_mode, drift, events>>
        ELSE IF ~get_ok
        THEN \* the GET fails: unwrap_or(false), nothing is cleared, Ok
             /\ last_check' = [rec EXCEPT !.result = "ok", !.read = "error"]
             /\ HeartbeatGoesOn(TRUE)
             /\ UNCHANGED <<safety_mode, drift, events>>
        ELSE IF ~RedisGetBool(safety_mode)
        THEN /\ last_check' = [rec EXCEPT !.result = "ok", !.read = "clear"]
             /\ HeartbeatGoesOn(TRUE)
             /\ UNCHANGED <<safety_mode, drift, events>>
        ELSE IF cmd_ok
        THEN /\ safety_mode' = <<>>
             /\ drift' = <<>>
             /\ events' = Append(events, "safety_mode_cleared")
             /\ last_check' = [rec EXCEPT !.result = "ok", !.read = "set"]
             /\ HeartbeatGoesOn(TRUE)
        ELSE \* the pipeline fails: Err
             /\ last_check' = [rec EXCEPT !.result = "redis_error", !.read = "set"]
             /\ HeartbeatGoesOn(FALSE)
             /\ UNCHANGED <<safety_mode, drift, events>>

HealthRecord(result, current, processed) ==
    [kind |-> "health", result |-> result, read |-> "none",
     current |-> current, processed |-> processed,
     delta |-> calculate_drift(current, processed)]

\* interval.tick().await, then check_health()
CheckHealth ==
    /\ heartbeat.pc = "health"
    /\ heartbeat.ticks < MaxTicks
    /\ \/ \* get_external_burn_height fails: Err
          /\ last_check' = HealthRecord("rpc_error", 0, 0)
          /\ HeartbeatGoesOn(FALSE)
          /\ UNCHANGED <<safety_mode, drift, events, last_trigger>>
       \/ \E current \in ExternalHeights :
          \/ \* get_processed_height fails: Err
             /\ last_check' = HealthRecord("db_error", current, 0)
             /\ HeartbeatGoesOn(FALSE)
             /\ UNCHANGED <<safety_mode, drift, events, last_trigger>>
          \/ LET processed == ProcessedHeight(db_blocks)
                 rec == HealthRecord("ok", current, processed)
             IN  IF DriftExceeds(rec.delta)
                 THEN TriggerSafetyMode(rec.delta, "height", rec)
                 ELSE /\ ClearSafetyModeIfNeeded(rec)
                      /\ UNCHANGED last_trigger
    /\ UNCHANGED drift_call
    /\ UNCHANGED <<trackerVars, twinVars, syncVars, execVars, lockVars, clientVars>>

TelemetryRecord(result, success_count, failure_count) ==
    [kind |-> "telemetry", result |-> result,
     success |-> success_count, failure |-> failure_count]

\* ingest_gateway_telemetry(), the gateway reporting a sample of S
IngestGatewayTelemetryOf(S) ==
    /\ heartbeat.pc = "telemetry"
    /\ \/ \* the request or the JSON body fails: Err
          /\ last_check' = TelemetryRecord("http_error", 0, 0)
          /\ HeartbeatGoesOn(FALSE)
          /\ UNCHANGED <<safety_mode, drift, events, last_trigger>>
       \/ \* the gateway answers with an error status: Ok
          /\ last_check' = TelemetryRecord("bad_status", 0, 0)
          /\ HeartbeatGoesOn(TRUE)
          /\ UNCHANGED <<safety_mode, drift, events, last_trigger>>
       \/ \E sample \in S :
             LET rec == TelemetryRecord("ok", sample[1], sample[2])
             IN  IF CircuitBreakerTrips(sample[1], sample[2])
                 THEN TriggerSafetyMode(TelemetryDrift, "telemetry", rec)
                 ELSE /\ last_check' = rec
                      /\ HeartbeatGoesOn(TRUE)
                      /\ UNCHANGED <<safety_mode, drift, events, last_trigger>>
    /\ UNCHANGED drift_call
    /\ UNCHANGED <<trackerVars, twinVars, syncVars, execVars, lockVars, clientVars>>

\* ingest_gateway_telemetry()
IngestGatewayTelemetry == IngestGatewayTelemetryOf(TelemetrySamples)

\* the samples of a gateway in a failure storm: every one trips the breaker
FailureStormSamples ==
    {sample \in TelemetrySamples : CircuitBreakerTrips(sample[1], sample[2])}

\* ingest_gateway_telemetry() while the gateway is in a failure storm
IngestFailureStorm == IngestGatewayTelemetryOf(FailureStormSamples)

\* the branch of get_direct_exit_status: eligible for direct withdrawal
ExitEligible(user, is_safety_mode) == is_safety_mode

\* get_direct_exit_status(user_address)
GetDirectExitStatus ==
    /\ \E user \in Users, get_ok \in BOOLEAN :
          last_check' =
              IF ~redis_up
              THEN [kind |-> "exit_status", user |-> user,
                    result |-> "redis_error", read |-> "none", eligible |-> FALSE]
              ELSE IF ~get_ok
              THEN \* the GET fails: unwrap_or(false)
                   [kind |-> "exit_status", user |-> user,
                    result |-> "ok", read |-> "error",
                    eligible |-> ExitEligible(user, FALSE)]
              ELSE [kind |-> "exit_status", user |-> user,
                    result |-> "ok", read |-> "value",
                    eligible |-> ExitEligible(user, RedisGetBool(safety_mode))]
    /\ UNCHANGED <<safety_mode, drift, events, heartbeat, last_trigger, drift_call>>
    /\ UNCHANGED <<trackerVars, twinVars, syncVars, execVars, lockVars, clientVars>>

\* the event applier stores the burn block of a height above the processed
\* height (handle_event, as far as the monitor reads its effect)
ApplierStoresBlock ==
    /\ \E h \in (ProcessedHeight(db_blocks) + 1)..MaxStored :
           db_blocks' = BurnBlockBlocks(db_blocks,
                            [kind |-> "BurnBlock", hash |-> BlockHash(h),
                             height |-> h, txs |-> <<>>, timestamp |-> h])
    /\ UNCHANGED <<chain, queue, poller, polls, db_txs, redis_root, redis_up,
                   last_result>>
    /\ UNCHANGED <<trackerVars, twinVars, safetyVars, execVars, lockVars, clientVars>>

\* a call NexusSafety::calculate_drift(current, processed)
CalculateDrift ==
    /\ drift_call.result = <<>>
    /\ drift_call' = [drift_call EXCEPT
                         !.result = <<calculate_drift(drift_call.current,
                                                      drift_call.processed)>>]
    /\ UNCHANGED <<safety_mode, drift, events, heartbeat, last_check, last_trigger>>
    /\ UNCHANGED <<trackerVars, twinVars, syncVars, execVars, lockVars, clientVars>>

SafetyInit ==
    /\ safety_mode = <<>>
    /\ drift = <<>>
    /\ events = <<>>
    /\ heartbeat = [pc |-> "health", ticks |-> 0]
    /\ last_check = NoCheck
    /\ last_trigger = "none"
    /\ drift_call = NoCall

---------------------------------------------------------------------------
(* The Merkle state tracker under concurrent callers: src/src/state/mod.rs *)
(*                                                                         *)
(* update_state_batch and set_initial_leaves take the Mutex of `leaves`    *)
(* and hold it until they return; inside they take the Mutex of            *)
(* `state_root` for the assignment.  generate_merkle_proof takes the Mutex *)
(* of `leaves`, holds it until it returns, and reads the root through      *)
(* get_state_root at the end.  get_state_root takes only the Mutex of      *)
(* `state_root`, for the clone.                                            *)

\* most leaves of the shared tracker, and of one write on it
MaxSharedLeaves == 3

\* the threads that call the tracker
Threads == {"t1", "t2"}

NoAnswer == [kind |-> "none"]
ThreadIdle == [pc |-> "idle", leaf |-> "", path |-> <<>>]

\* a mutant: the guard of `leaves` is dropped after the push loop
ReleasedAfterPush(t) == "free"

\* `let mut leaves = self.leaves.lock().unwrap()` lives to the end of the
\* function: the lock is still held after the leaves are written
HeldAfterPush(t) == t

\* update_state_batch(data): lock `leaves`, push every item
UpdateLockAndPush(t) ==
    /\ threads[t].pc = "idle"
    /\ leaves_lock = "free"
    /\ \E data \in SeqsUpTo(LeafValues, MaxSharedLeaves) :
           /\ Len(leaves) + Len(data) <= MaxSharedLeaves
           /\ leaves' = leaves \o data
    /\ leaves_lock' = HeldAfterPush(t)
    /\ threads' = [threads EXCEPT ![t].pc = "set_root"]
    /\ last_answer' = NoAnswer
    /\ UNCHANGED <<state_root, completed_log>>
    /\ UNCHANGED <<twinVars, syncVars, safetyVars, execVars, clientVars>>

\* set_initial_leaves(new_leaves): lock `leaves`, replace them
SetInitialLockAndStore(t) ==
    /\ threads[t].pc = "idle"
    /\ leaves_lock = "free"
    /\ \E new_leaves \in SeqsUpTo(LeafValues, MaxSharedLeaves) :
           leaves' = new_leaves
    /\ leaves_lock' = HeldAfterPush(t)
    /\ threads' = [threads EXCEPT ![t].pc = "set_root"]
    /\ last_answer' = NoAnswer
    /\ UNCHANGED <<state_root, completed_log>>
    /\ UNCHANGED <<twinVars, syncVars, safetyVars, execVars, clientVars>>

\* the rest of both: calculate_root(&leaves), assign state_root, return
\* (the guard of `leaves` is dropped)
WriteSetRoot(t) ==
    /\ threads[t].pc = "set_root"
    /\ state_root' = calculate_root(leaves)
    /\ completed_log' = leaves
    /\ leaves_lock' = "free"
    /\ threads' = [threads EXCEPT ![t].pc = "idle"]
    /\ last_answer' = NoAnswer
    /\ UNCHANGED leaves
    /\ UNCHANGED <<twinVars, syncVars, safetyVars, execVars, clientVars>>

\* get_state_root()
GetStateRoot(t) ==
    /\ threads[t].pc = "idle"
    /\ last_answer' = [kind |-> "root", thread |-> t, root |-> state_root]
    /\ UNCHANGED <<leaves, state_root, leaves_lock, threads, completed_log>>
    /\ UNCHANGED <<twinVars, syncVars, safetyVars, execVars, clientVars>>

\* generate_merkle_proof(key): lock `leaves`, find the key, build the path
ProofLockAndPath(t) ==
    /\ threads[t].pc = "idle"
    /\ leaves_lock = "free"
    /\ \E key \in LeafValues :
           IF Position(leaves, key) < 0
           THEN \* `?` on position(): None, the guard is dropped
                /\ last_answer' = [kind |-> "no_proof", thread |-> t, leaf |-> key]
                /\ UNCHANGED <<leaves_lock, threads>>
           ELSE /\ threads' = [threads EXCEPT
                                  ![t].pc = "proof_root",
                                  ![t].leaf = key,
                                  ![t].path = ProofPath(LeafHashes(leaves),
                                                        Position(leaves, key))]
                /\ leaves_lock' = t
                /\ last_answer' = NoAnswer
    /\ UNCHANGED <<leaves, state_root, completed_log>>
    /\ UNCHANGED <<twinVars, syncVars, safetyVars, execVars, clientVars>>

\* the end of generate_merkle_proof: root: self.get_state_root(), return
ProofReadRoot(t) ==
    /\ threads[t].pc = "proof_root"
    /\ threads' = [threads EXCEPT ![t] = ThreadIdle]
    /\ last_answer' = [kind |-> "proof", thread |-> t,
                       proof |-> [leaf |-> threads[t].leaf,
                                  path |-> threads[t].path,
                                  root |-> state_root]]
    /\ leaves_lock' = "free"
    /\ UNCHANGED <<leaves, state_root, completed_log>>
    /\ UNCHANGED <<twinVars, syncVars, safetyVars, execVars, clientVars>>

LockInit ==
    /\ leaves_lock = "free"
    /\ threads = [t \in Threads |-> ThreadIdle]
    /\ completed_log = <<>>
    /\ last_answer = NoAnswer

---------------------------------------------------------------------------
(* The rebalance sweep: execute_rebalance of src/src/executor/mod.rs       *)

\* most vaults one sweep fetches
MaxVaults == 3

\* the 85% LTV threshold, and ltv_ratio values, in thousandths
RebalanceThreshold == 850
LtvRatios == {800, 850, 851}
VaultIds == {"v1", "v2"}

\* VaultStatus, as far as the sweep reads it
VaultStatuses == [vault_id : VaultIds, ltv_ratio : LtvRatios]

NoSweep == [vaults |-> <<>>, signed |-> <<>>]

\* lib_conxian_core::sign_transaction(message): the signature of the message
sign_transaction(message) == <<"sig", message>>

\* a mutant: a vault at the threshold is rebalanced too
AtOrOverThreshold(vault) == vault.ltv_ratio >= RebalanceThreshold

\* vault.ltv_ratio > 0.85
OverThreshold(vault) == vault.ltv_ratio > RebalanceThreshold

\* the for loop of execute_rebalance from vault i on: the signatures made
RECURSIVE RebalanceLoop(_, _)
RebalanceLoop(vaults, i) ==
    IF i > Len(vaults) THEN <<>>
    ELSE (IF OverThreshold(vaults[i])
          THEN <<sign_transaction("rebalance-" \o vaults[i].vault_id)>>
          ELSE <<>>)
         \o RebalanceLoop(vaults, i + 1)

\* execute_rebalance on the fetched vaults: the signatures made, in order
execute_rebalance(vaults) ==
    IF Len(RebalanceLoop(vaults, 1)) > 0
    THEN RebalanceLoop(vaults, 1)
             \o <<sign_transaction("agent-risk:signal-bounty-success")>>
    ELSE RebalanceLoop(vaults, 1)

\* get_vaults_to_check(): no vaults when redis does not answer, else the
\* parsed status blobs of the active vaults
GetVaultsToCheck ==
    IF redis_up THEN SeqsUpTo(VaultStatuses, MaxVaults) ELSE {<<>>}

\* one execute_rebalance() sweep
ExecuteRebalance ==
    /\ \E vaults \in GetVaultsToCheck :
           sweep' = [vaults |-> vaults, signed |-> execute_rebalance(vaults)]
    /\ UNCHANGED <<latest_event_time_cache, calls, last_validation>>
    /\ UNCHANGED <<trackerVars, twinVars, syncVars, safetyVars, lockVars, clientVars>>

---------------------------------------------------------------------------
(* The FSOC sequencer: validate_transaction of src/src/executor/mod.rs,    *)
(* called by the execute handlers of src/src/api.  Times are milliseconds. *)
(* Each handler's call is a sequence of steps, one per lock section or     *)
(* database query, so that calls interleave with each other and with the   *)
(* event applier as the tasks of the runtime do.                           *)

\* most blocks the event applier stores under the sequencer
MaxExecBlocks == 2

\* the windows of detect_front_running and its thresholds
SenderWindowMs == 60000
PayloadWindowMs == 5000
LiquidationWindowMs == 500
MaxSenderCount == 10

\* the handlers that run validate_transaction concurrently
Callers == {"h1", "h2"}

\* created_at of the blocks the applier stores, and the requests' timestamps
ExecBlockTimes == {40000, 95000, 100000, 101000}
RequestTimes == {100000}

\* transactions of a stored block (all of sender SP1, payload token_transfer)
ExecTxCounts == {10, 11}

\* payloads for which payload.contains("liquidate") holds
LiquidationPayloads == {"liquidate_vault"}

\* ExecutionRequest: a fresh tx id or a stored one, either sender, a payload
\* that stored transactions carry or a liquidation
ExecutionRequests ==
    [tx_id : {"req", TxId(1, 1)}, sender : Users,
     payload : {"token_transfer"} \cup LiquidationPayloads,
     timestamp : RequestTimes]

\* the requests of the second handler, which runs beside the first
ConcurrentRequests ==
    {[tx_id |-> "req2", sender |-> "SP2", payload |-> "liquidate_vault",
      timestamp |-> t] : t \in RequestTimes}

\* the requests handler c receives
RequestsOf(c) == IF c = "h1" THEN ExecutionRequests ELSE ConcurrentRequests

NoRequest == [tx_id |-> "", sender |-> "", payload |-> "", timestamp |-> 0]

CallIdle == [pc |-> "idle", phase |-> "timestamp", request |-> NoRequest,
             fetched |-> <<>>, event_time |-> <<>>,
             sender_count |-> <<>>, payload_count |-> <<>>]

NoValidation == [kind |-> "none"]

\* SELECT created_at FROM stacks_blocks ORDER BY created_at DESC LIMIT 1
LatestEventTime(blocks) ==
    IF DOMAIN blocks = {} THEN <<>>
    ELSE <<CHOOSE m \in {blocks[k].created_at : k \in DOMAIN blocks} :
               \A k \in DOMAIN blocks : blocks[k].created_at <= m>>

\* SELECT COUNT(*) FROM stacks_transactions
\*   WHERE tx_id != $1 AND sender = $2 AND created_at > $3
\* with $3 = request.timestamp - 60 s
SenderCount(table, request) ==
    Cardinality({k \in DOMAIN table :
        /\ k # request.tx_id
        /\ table[k].sender = request.sender
        /\ table[k].created_at > request.timestamp - SenderWindowMs})

\* SELECT COUNT(*) FROM stacks_transactions
\*   WHERE tx_id != $1 AND payload = $2 AND created_at > $3
\* with $3 = request.timestamp - 5 s
PayloadCount(table, request) ==
    Cardinality({k \in DOMAIN table :
        /\ k # request.tx_id
        /\ table[k].payload = request.payload
        /\ table[k].created_at > request.timestamp - PayloadWindowMs})

\* request.payload.contains("liquidate")
ContainsLiquidate(payload) == payload \in LiquidationPayloads

\* a mutant: a request at the event time is too early as well
TimestampNotAfter(timestamp, event_time) == timestamp <= event_time

\* request.timestamp < event_time
TimestampTooEarly(timestamp, event_time) == timestamp < event_time

\* request.timestamp.signed_duration_since(t).num_milliseconds() < 500
LiquidationWarned(timestamp, time) ==
    time # <<>> /\ timestamp - time[1] < LiquidationWindowMs

\* a mutant: a warned liquidation counts as front-running
LiquidationFlagsWarned(warned) == warned

\* what detect_front_running returns after its heuristic: Ok(false)
LiquidationFlags(warned) == FALSE

\* a mutant: an internal error is reported as a rejection
ExecuteTxResponseErrRejected(result) ==
    CASE result = "ok_true"  -> [code |-> 200, status |-> "Success"]
      [] result = "ok_false" -> [code |-> 400, status |-> "Rejected"]
      [] result = "err"      -> [code |-> 400, status |-> "Rejected"]

\* execute_tx: the response for each outcome of validate_transaction
ExecuteTxResponse(result) ==
    CASE result = "ok_true"  -> [code |-> 200, status |-> "Success"]
      [] result = "ok_false" -> [code |-> 400, status |-> "Rejected"]
      [] result = "err"      -> [code |-> 500, status |-> "Error"]

\* validate_transaction returns to handler c, which answers
Returns(c, call, result, rule, warned, failed) ==
    /\ calls' = [calls EXCEPT ![c] = CallIdle]
    /\ last_validation' =
           [kind |-> "returned", caller |-> c, request |-> call.request,
            result |-> result, rule |-> rule, failed |-> failed,
            event_time |-> call.event_time,
            sender_count |-> call.sender_count,
            payload_count |-> call.payload_count,
            warned |-> warned,
            response |-> ExecuteTxResponse(result)]

\* get_cached_or_fetch_latest_event_time has returned `time` to call c:
\* the timestamp rule of validate_transaction, or the liquidation heuristic
\* and the end of detect_front_running
GotEventTime(c, call, time) ==
    IF call.phase = "timestamp"
    THEN IF time # <<>> /\ TimestampTooEarly(call.request.timestamp, time[1])
         THEN Returns(c, [call EXCEPT !.event_time = time],
                      "ok_false", "timestamp", FALSE, FALSE)
         ELSE /\ calls' = [calls EXCEPT ![c] =
                              [call EXCEPT !.pc = "count_sender",
                                           !.event_time = time]]
              /\ last_validation' = NoValidation
    ELSE IF LiquidationFlags(LiquidationWarned(call.request.timestamp, time))
         THEN Returns(c, call, "ok_false", "liquidation",
                      LiquidationWarned(call.request.timestamp, time), FALSE)
         ELSE Returns(c, call, "ok_true", "none",
                      LiquidationWarned(call.request.timestamp, time), FALSE)

\* get_cached_or_fetch_latest_event_time, first block: lock the cache,
\* return its value if it has one
CacheLookup(c, call) ==
    IF latest_event_time_cache # <<>>
    THEN GotEventTime(c, call, latest_event_time_cache)
    ELSE /\ calls' = [calls EXCEPT ![c] = [call EXCEPT !.pc = "fetch_time"]]
         /\ last_validation' = NoValidation

\* a handler receives a request of R and calls validate_transaction
ValidateBegin(c, R) ==
    /\ calls[c].pc = "idle"
    /\ \E request \in R :
           CacheLookup(c, [CallIdle EXCEPT !.request = request])
    /\ UNCHANGED <<latest_event_time_cache, sweep>>
    /\ UNCHANGED <<trackerVars, twinVars, syncVars, safetyVars, lockVars, clientVars>>

\* the query of get_cached_or_fetch_latest_event_time
FetchLatestEventTime(c) ==
    /\ calls[c].pc = "fetch_time"
    /\ \E db_ok \in BOOLEAN :
           IF ~db_ok
           THEN Returns(c, calls[c], "err", "none", FALSE, TRUE)
           ELSE IF LatestEventTime(db_blocks) = <<>>
                THEN GotEventTime(c, calls[c], <<>>)
                ELSE /\ calls' = [calls EXCEPT
                                     ![c].pc = "store_time",
                                     ![c].fetched = LatestEventTime(db_blocks)]
                     /\ last_validation' = NoValidation
    /\ UNCHANGED <<latest_event_time_cache, sweep>>
    /\ UNCHANGED <<trackerVars, twinVars, syncVars, safetyVars, lockVars, clientVars>>

\* `if let Some(t) = time { *cache = Some(t) }` and the return of the time
StoreLatestEventTime(c) ==
    /\ calls[c].pc = "store_time"
    /\ latest_event_time_cache' = calls[c].fetched
    /\ GotEventTime(c, calls[c], calls[c].fetched)
    /\ UNCHANGED sweep
    /\ UNCHANGED <<trackerVars, twinVars, syncVars, safetyVars, lockVars, clientVars>>

\* detect_front_running, 1: the sender's transactions in the last minute
CountSender(c) ==
    /\ calls[c].pc = "count_sender"
    /\ \E db_ok \in BOOLEAN :
           LET n    == SenderCount(db_txs, calls[c].request)
               call == [calls[c] EXCEPT !.sender_count = <<n>>]
           IN  IF ~db_ok
               THEN Returns(c, calls[c], "err", "none", FALSE, TRUE)
               ELSE IF n > MaxSenderCount
                    THEN Returns(c, call, "ok_false", "sender", FALSE, FALSE)
                    ELSE /\ calls' = [calls EXCEPT ![c] =
                                         [call EXCEPT !.pc = "count_payload"]]
                         /\ last_validation' = NoValidation
    /\ UNCHANGED <<latest_event_time_cache, sweep>>
    /\ UNCHANGED <<trackerVars, twinVars, syncVars, safetyVars, lockVars, clientVars>>

\* detect_front_running, 2 and 3: identical payloads in the last 5 s, then
\* the liquidation heuristic, which asks for the latest event time again
CountPayload(c) ==
    /\ calls[c].pc = "count_payload"
    /\ \E db_ok \in BOOLEAN :
           LET n    == PayloadCount(db_txs, calls[c].request)
               call == [calls[c] EXCEPT !.payload_count = <<n>>]
           IN  IF ~db_ok
               THEN Returns(c, calls[c], "err", "none", FALSE, TRUE)
               ELSE IF n > 0
                    THEN Returns(c, call, "ok_false", "payload", FALSE, FALSE)
                    ELSE IF ContainsLiquidate(call.request.payload)
                         THEN CacheLookup(c, [call EXCEPT !.phase = "liquidation"])
                         ELSE Returns(c, call, "ok_true", "none", FALSE, FALSE)
    /\ UNCHANGED <<latest_event_time_cache, sweep>>
    /\ UNCHANGED <<trackerVars, twinVars, syncVars, safetyVars, lockVars, clientVars>>

\* the event applier stores the next block, burn block and microblock, with
\* n transactions and a time of T later than the stored blocks'
\* (handle_event, as far as the sequencer reads its effect)
ApplierStoresTxBlock(T, N) ==
    /\ ProcessedHeight(db_blocks) < MaxExecBlocks
    /\ \E t \in T, n \in N :
           LET h     == ProcessedHeight(db_blocks) + 1
               burn  == [kind |-> "BurnBlock", hash |-> BlockHash(h),
                         height |-> h, txs |-> <<>>, timestamp |-> t]
               micro == [kind |-> "Microblock", hash |-> BlockHash(h),
                         height |-> h, timestamp |-> t,
                         txs |-> [i \in 1..n |->
                                     [tx_id |-> TxId(h, i), sender |-> "SP1",
                                      payload |-> "token_transfer"]]]
           IN  /\ LatestEventTime(db_blocks) # <<>>
                      => t > LatestEventTime(db_blocks)[1]
               /\ db_blocks' = MicroblockBlocks(BurnBlockBlocks(db_blocks, burn), micro)
               /\ db_txs' = InsertTxs(db_txs, micro, 1)
    /\ last_validation' = NoValidation
    /\ UNCHANGED <<chain, queue, poller, polls, redis_root, redis_up, last_result>>
    /\ UNCHANGED <<latest_event_time_cache, calls, sweep>>
    /\ UNCHANGED <<trackerVars, twinVars, safetyVars, lockVars, clientVars>>

ExecInit ==
    /\ latest_event_time_cache = <<>>
    /\ calls = [c \in Callers |-> CallIdle]
    /\ last_validation = NoValidation
    /\ sweep = NoSweep

---------------------------------------------------------------------------
(* Clients of the tracker: generate_proof, generate_merkle_proof and the   *)
(* free function verify_merkle_proof of src/src/state/mod.rs.  A client    *)
(* holds what it was given while the tracker goes on, may alter it, and    *)
(* has it verified.                                                        *)

NoProof == [kind |-> "none"]
NoStatus == [pc |-> "none"]

\* sibling strings that hex::decode rejects
UndecodableHex == <<"0xzz">>

\* "{}".to_string()
EmptyJson == <<"{}">>

\* serde_json::to_string(&proof)
ProofJson(proof) == <<"json", proof>>

\* a mutant: the proof carries the root as of the append of its leaf
GenerateProofRootOfPrefix(lv, root, key) ==
    IF generate_merkle_proof(lv, root, key) = None THEN <<root, EmptyJson>>
    ELSE <<calculate_root(SubSeq(lv, 1, Position(lv, key) + 1)),
           ProofJson(generate_merkle_proof(lv, root, key))>>

\* generate_proof(key) of a tracker holding (lv, root): (hash, proof)
generate_proof(lv, root, key) ==
    IF generate_merkle_proof(lv, root, key) = None THEN <<root, EmptyJson>>
    ELSE <<generate_merkle_proof(lv, root, key).root,
           ProofJson(generate_merkle_proof(lv, root, key))>>

\* a client calls generate_merkle_proof(key)
GenerateMerkleProof ==
    /\ \E key \in LeafValues \cup {AbsentValue} :
           held_proof' =
               IF generate_merkle_proof(leaves, state_root, key) = None
               THEN [kind |-> "no_proof", key |-> key]
               ELSE [kind |-> "proof", key |-> key, genuine |-> TRUE,
                     proof |-> generate_merkle_proof(leaves, state_root, key)]
    /\ UNCHANGED status_query
    /\ UNCHANGED <<trackerVars, twinVars, syncVars, safetyVars, execVars, lockVars>>

\* a client calls generate_proof(key)
GenerateProof ==
    /\ \E key \in LeafValues \cup {AbsentValue} :
           held_proof' = [kind |-> "hash_and_proof", key |-> key,
                          hash |-> generate_proof(leaves, state_root, key)[1],
                          proof |-> generate_proof(leaves, state_root, key)[2]]
    /\ UNCHANGED status_query
    /\ UNCHANGED <<trackerVars, twinVars, syncVars, safetyVars, execVars, lockVars>>

\* the held proof is altered: a sibling made undecodable or stripped of its
\* "0x", the leaf or the root replaced
AlterProof ==
    /\ held_proof.kind = "proof"
    /\ held_proof.genuine
    /\ \E p \in {[held_proof.proof EXCEPT !.path[i].hash = UndecodableHex] :
                    i \in 1..Len(held_proof.proof.path)}
             \cup {[held_proof.proof EXCEPT !.path[i].hash = <<"", @[2]>>] :
                    i \in 1..Len(held_proof.proof.path)}
             \cup {[held_proof.proof EXCEPT !.leaf = AbsentValue],
                   [held_proof.proof EXCEPT !.root = UndecodableHex]} :
           held_proof' = [held_proof EXCEPT !.genuine = FALSE, !.proof = p]
    /\ UNCHANGED status_query
    /\ UNCHANGED <<trackerVars, twinVars, syncVars, safetyVars, execVars, lockVars>>

\* verify_merkle_proof(&proof) on the held proof
VerifyMerkleProof ==
    /\ held_proof.kind = "proof"
    /\ held_proof' = [kind |-> "verified", key |-> held_proof.key,
                      genuine |-> held_proof.genuine,
                      proof |-> held_proof.proof,
                      valid |-> verify_merkle_proof(held_proof.proof)]
    /\ UNCHANGED status_query
    /\ UNCHANGED <<trackerVars, twinVars, syncVars, safetyVars, execVars, lockVars>>

---------------------------------------------------------------------------
(* Specifications *)

\* redis GET of a key as u64 (get_status reads nexus:drift so): a missing
\* key does not convert, and unwrap_or(0) answers 0
RedisGetU64(key) == IF key = <<>> THEN 0 ELSE key[1]

\* a get_status request: where it is, the HTTP status it answers with, and
\* the fields of its StatusResponse as far as they have been read
StatusQuery(pc, code, root, height, mode, delta, gets_ok) ==
    [pc |-> pc, code |-> code, state_root |-> root,
     processed_height |-> height, safety_mode |-> mode, drift |-> delta,
     gets_ok |-> gets_ok]

\* get_status answers 500
StatusFailed == StatusQuery("done", 500, Zero32, 0, FALSE, 0, FALSE)

\* get_status up to the database query: get_state_root(), then
\* SELECT MAX(height); a database error answers 500
GetStatusBegin ==
    /\ status_query.pc \in {"none", "done"}
    /\ \E db_ok \in BOOLEAN :
          status_query' =
              IF db_ok
              THEN StatusQuery("safety_mode", 0, state_root,
                               ProcessedHeight(db_blocks), FALSE, 0, TRUE)
              ELSE StatusFailed
    /\ UNCHANGED held_proof
    /\ UNCHANGED <<trackerVars, twinVars, syncVars, safetyVars, execVars, lockVars>>

\* get_status: the redis connection (an error answers 500), then
\* GET nexus:safety_mode with unwrap_or(false)
GetStatusSafetyMode ==
    /\ status_query.pc = "safety_mode"
    /\ \E get_ok \in BOOLEAN :
          status_query' =
              IF ~redis_up
              THEN StatusFailed
              ELSE [status_query EXCEPT
                       !.pc = "drift",
                       !.safety_mode = IF get_ok THEN RedisGetBool(safety_mode)
                                       ELSE FALSE,
                       !.gets_ok = get_ok]
    /\ UNCHANGED held_proof
    /\ UNCHANGED <<trackerVars, twinVars, syncVars, safetyVars, execVars, lockVars>>

\* get_status: GET nexus:drift with unwrap_or(0), then the response
GetStatusDrift ==
    /\ status_query.pc = "drift"
    /\ \E get_ok \in (IF redis_up THEN BOOLEAN ELSE {FALSE}) :
          status_query' =
              [status_query EXCEPT
                  !.pc = "done",
                  !.code = 200,
                  !.drift = IF get_ok THEN RedisGetU64(drift) ELSE 0,
                  !.gets_ok = status_query.gets_ok /\ get_ok]
    /\ UNCHANGED held_proof
    /\ UNCHANGED <<trackerVars, twinVars, syncVars, safetyVars, execVars, lockVars>>

ClientInit ==
    /\ held_proof = NoProof
    /\ status_query = NoStatus

Init ==
    /\ TrackerInit /\ TwinInit /\ SyncInit /\ SafetyInit /\ ExecInit /\ LockInit
    /\ ClientInit

\* one process lifetime: the poller task and the applier loop of run()
Next ==
    \/ ChainGrows
    \/ PollBegin
    \/ PollFetch
    \/ PollSendMicro
    \/ HandleEvent

Spec == Init /\ [][Next]_vars

\* the same with restarts of the process, a redis server that may be down
\* and upstream block times in any order
RestartNext ==
    \/ Next
    \/ ChainGrowsSkewed
    \/ RedisFlips
    \/ LoadInitialState

SpecRestart == Init /\ [][RestartNext]_vars

\* the heartbeat task, exit status queries, and what they read changing
\* under them
SafetyNext ==
    \/ CheckHealth
    \/ IngestGatewayTelemetry
    \/ GetDirectExitStatus
    \/ ApplierStoresBlock
    \/ RedisFlips

SpecSafety == Init /\ [][SafetyNext]_vars

\* the heartbeat task and exit status queries while the gateway is in a
\* failure storm: every sample the gateway reports trips the breaker
TelemetryFaultNext ==
    \/ CheckHealth
    \/ IngestFailureStorm
    \/ GetDirectExitStatus
    \/ ApplierStoresBlock

SpecTelemetryFault == Init /\ [][TelemetryFaultNext]_vars

\* status queries next to the heartbeat task
StatusNext ==
    \/ CheckHealth
    \/ IngestGatewayTelemetry
    \/ ApplierStoresBlock
    \/ GetStatusBegin
    \/ GetStatusSafetyMode
    \/ GetStatusDrift

SpecStatus == Init /\ [][StatusNext]_vars

\* calls of calculate_drift on any arguments
DriftInit ==
    /\ TrackerInit /\ TwinInit /\ SyncInit /\ ExecInit /\ LockInit /\ ClientInit
    /\ safety_mode = <<>>
    /\ drift = <<>>
    /\ events = <<>>
    /\ heartbeat = [pc |-> "health", ticks |-> 0]
    /\ last_check = NoCheck
    /\ last_trigger = "none"
    /\ drift_call \in {[current |-> c, processed |-> p, result |-> <<>>] :
                          c \in DriftArgs, p \in DriftArgs}

SpecDrift == DriftInit /\ [][CalculateDrift]_vars

TrackerNext ==
    \/ UpdateStateBatch
    \/ TwinUpdateStateBatch
    \/ SetInitialLeaves

\* the tracker on its own, under any calls
SpecTracker == Init /\ [][TrackerNext]_vars

\* the tracker under batch appends, with a client that asks for proofs,
\* keeps them and has them verified
VerifyNext ==
    \/ UpdateStateBatch
    \/ GenerateMerkleProof
    \/ GenerateProof
    \/ AlterProof
    \/ VerifyMerkleProof

SpecVerify == Init /\ [][VerifyNext]_vars

\* the tracker shared by threads, each call a sequence of steps under the
\* locks it takes
LocksNext ==
    \E t \in Threads :
        \/ UpdateLockAndPush(t)
        \/ SetInitialLockAndStore(t)
        \/ WriteSetRoot(t)
        \/ GetStateRoot(t)
        \/ ProofLockAndPath(t)
        \/ ProofReadRoot(t)

SpecLocks == Init /\ [][LocksNext]_vars

\* rebalance sweeps, with a redis server that may be down
RebalanceNext ==
    \/ ExecuteRebalance
    \/ RedisFlips

SpecRebalance == Init /\ [][RebalanceNext]_vars

\* the execute handlers validating requests while the applier stores blocks
ExecutorNext ==
    \/ \E c \in Callers :
           \/ ValidateBegin(c, RequestsOf(c))
           \/ FetchLatestEventTime(c)
           \/ StoreLatestEventTime(c)
           \/ CountSender(c)
           \/ CountPayload(c)
    \/ ApplierStoresTxBlock(ExecBlockTimes, ExecTxCounts)

SpecExecutor == Init /\ [][ExecutorNext]_vars

---------------------------------------------------------------------------
(* Properties of the Merkle state tracker *)

\* v occurs in the leaf log
Occurs(lv, v) == \E i \in 1..Len(lv) : lv[i] = v

\* C1: for every value v, generate_merkle_proof(v) returns a proof with
\* leaf v that verify_merkle_proof accepts when v occurs in the leaf log
\* (at any position, also as the odd last leaf or more than once), and
\* returns None when v does not occur.
C1_ProofRoundTrip ==
    \A v \in LeafValues \cup {AbsentValue} :
        LET p == generate_merkle_proof(leaves, state_root, v) IN
        IF Occurs(leaves, v)
        THEN p # None /\ p.leaf = v /\ verify_merkle_proof(p)
        ELSE p = None

\* an odd-length log of five leaves whose last leaf occurs once, with another
\* value occurring twice: the proofs of both verify
C1_Witness ==
    /\ Len(leaves) = 5
    /\ \A i \in 1..4 : leaves[i] # leaves[5]
    /\ \E i, j \in 1..4 : i # j /\ leaves[i] = leaves[j]
          /\ verify_merkle_proof(generate_merkle_proof(leaves, state_root, leaves[i]))
    /\ verify_merkle_proof(generate_merkle_proof(leaves, state_root, leaves[5]))
    /\ generate_merkle_proof(leaves, state_root, AbsentValue) = None

\* the reference Merkle root: node i of the level above is the hash of nodes
\* 2i-1 and 2i, and of node 2i-1 with itself when node 2i does not exist
RefLevel(level) ==
    [i \in 1..((Len(level) + 1) \div 2) |->
        <<"H", level[2 * i - 1],
               level[IF 2 * i <= Len(level) THEN 2 * i ELSE 2 * i - 1]>>]

RECURSIVE RefTop(_)
RefTop(level) == IF Len(level) = 1 THEN level[1] ELSE RefTop(RefLevel(level))

RefRoot(lv) ==
    IF Len(lv) = 0 THEN <<"0x", <<"Z">>>>
    ELSE <<"0x", RefTop([i \in 1..Len(lv) |-> <<"H", lv[i]>>])>>

\* C2: the stored root of a tracker is the reference Merkle root of its entire
\* leaf log (all-zero for the empty log, the leaf hash for one leaf), and the
\* log is everything the tracker received since set_initial_leaves, in order.
C2_RootIsReferenceRoot ==
    /\ state_root = RefRoot(leaves)
    /\ twin_root = RefRoot(twin_leaves)
    /\ leaves = twin_leaves \o twin_pending
    /\ (leaves = <<>> => state_root = initial_root)
    /\ (Len(leaves) = 1 => state_root = Fmt0x(Sha256(leaves[1])))

\* five leaves (odd at two levels) appended in at least two batches
C2_Witness ==
    /\ Len(leaves) = 5
    /\ batch_len = 2
    /\ state_root = RefRoot(leaves)
    /\ state_root # initial_root

\* the leaves of s at the positions in P, in order
RECURSIVE SubseqAt(_, _, _)
SubseqAt(s, P, i) ==
    IF i > Len(s) THEN <<>>
    ELSE (IF i \in P THEN <<s[i]>> ELSE <<>>) \o SubseqAt(s, P, i + 1)

\* every log obtained from s by omitting leaves
Omissions(s) == {SubseqAt(s, P, 1) : P \in SUBSET (1..Len(s))}

\* every log obtained from s by reordering its leaves
Reorderings(s) ==
    {[i \in 1..Len(s) |-> s[f[i]]] :
        f \in {g \in [1..Len(s) -> 1..Len(s)] :
                  \A a, b \in 1..Len(s) : a # b => g[a] # g[b]}}

\* C3: the root binds the ordered leaf sequence: a log that differs from the
\* tracker's and is obtained from it by omitting or by reordering leaves
\* has another root.
C3_RootBindsLeafSequence ==
    \A other \in Omissions(leaves) \cup Reorderings(leaves) :
        other # leaves => calculate_root(other) # state_root

\* C4: two trackers that received the same overall leaf sequence, split into
\* update_state_batch calls in different ways, hold identical roots.
C4_SplitIndependentRoot ==
    twin_pending = <<>> => (twin_root = state_root /\ twin_leaves = leaves)

\* both trackers hold the same five leaves and their latest batches differ
C4_Witness ==
    /\ twin_pending = <<>>
    /\ Len(leaves) = 5
    /\ twin_leaves = leaves
    /\ batch_len > 0
    /\ twin_batch_len > 0
    /\ batch_len # twin_batch_len
    /\ twin_root = state_root

---------------------------------------------------------------------------
(* Properties of the chain event processor *)

\* the step is a handle_event call (every other action clears last_result)
HandledKind == last_result'.event.kind
HandledOk(kind) == last_result'.event.kind = kind /\ last_result'.ok

\* C5: a Microblock event that persists appends exactly its transaction ids,
\* in the order of the event, after all earlier leaves; an event that fails
\* and a BurnBlock event leave the leaf log as it is (nothing is removed or
\* reordered by event application).
C5_MicroblockAppendsTxIds ==
    [][/\ HandledOk("Microblock") =>
            leaves' = leaves \o [i \in 1..Len(last_result'.event.txs) |->
                                     last_result'.event.txs[i].tx_id]
       /\ (HandledKind # "none" /\ ~HandledOk("Microblock")) => leaves' = leaves
      ]_vars

\* a Microblock event with two transactions was applied after earlier leaves
C5_Witness ==
    /\ last_result.ok
    /\ last_result.event.kind = "Microblock"
    /\ Len(last_result.event.txs) = 2
    /\ Len(leaves) > 2
    /\ leaves[Len(leaves) - 1] = last_result.event.txs[1].tx_id
    /\ leaves[Len(leaves)] = last_result.event.txs[2].tx_id
    /\ leaves[1] # leaves[Len(leaves) - 1]

\* C6: each transaction id occurs at most once in the Merkle leaf log.
C6_LeafAppendedOnce ==
    \A i, j \in 1..Len(leaves) : i # j => leaves[i] # leaves[j]

\* the event that handle_event has just applied
Handled == last_result'.event

\* C7 as stated: applying an event whose block hash is already stored leaves
\* the stored block row unchanged, and a stored transaction row is never
\* changed.
C7_StoredRowsUnchanged ==
    [][HandledKind # "none" =>
          /\ Handled.hash \in DOMAIN db_blocks =>
                 /\ Handled.hash \in DOMAIN db_blocks'
                 /\ db_blocks'[Handled.hash] = db_blocks[Handled.hash]
          /\ \A t \in DOMAIN db_txs :
                 t \in DOMAIN db_txs' /\ db_txs'[t] = db_txs[t]
      ]_vars

\* C7 (amended): the inserts are insert-if-absent.  A handle_event call leaves
\* every stored transaction row unchanged and every stored block row's
\* height, kind and timestamp unchanged; a Microblock event leaves stored
\* block rows entirely unchanged; the finality of a stored row changes only
\* from soft to hard, by a BurnBlock event at or above the row's height.
\* Applying the same event again leaves both tables as they are.
C7_InsertIfAbsent ==
    [][HandledKind # "none" =>
          /\ \A t \in DOMAIN db_txs :
                 t \in DOMAIN db_txs' /\ db_txs'[t] = db_txs[t]
          /\ \A k \in DOMAIN db_blocks :
                 /\ k \in DOMAIN db_blocks'
                 /\ db_blocks'[k].height = db_blocks[k].height
                 /\ db_blocks'[k].type = db_blocks[k].type
                 /\ db_blocks'[k].created_at = db_blocks[k].created_at
                 /\ (db_blocks'[k].state # db_blocks[k].state =>
                        /\ HandledOk("BurnBlock")
                        /\ db_blocks[k].state = "soft"
                        /\ db_blocks'[k].state = "hard"
                        /\ db_blocks[k].height <= Handled.height)
          /\ HandledOk("Microblock") =>
                 /\ Handled.hash \in DOMAIN db_blocks'
                 /\ \A i \in 1..Len(Handled.txs) :
                        Handled.txs[i].tx_id \in DOMAIN db_txs'
                 /\ MicroblockBlocks(db_blocks', Handled) = db_blocks'
                 /\ InsertTxs(db_txs', Handled, 1) = db_txs'
          /\ HandledOk("BurnBlock") =>
                 /\ Handled.hash \in DOMAIN db_blocks'
                 /\ BurnBlockBlocks(db_blocks', Handled) = db_blocks'
      ]_vars

\* a Microblock event was applied whose block hash was already stored, as a
\* burn block, and whose transactions were already stored: the rows remain
C7_Witness ==
    /\ last_result.ok
    /\ last_result.event.kind = "Microblock"
    /\ db_blocks[last_result.event.hash].type = "burn_block"
    /\ db_blocks[last_result.event.hash].state = "hard"
    /\ Len(leaves) > Cardinality(DOMAIN db_txs)

\* C8: a restart (a new tracker filled by load_initial_state) yields the leaf
\* log and the root the tracker held before.
C8_RestartKeepsTracker ==
    [][LoadInitialState => (leaves' = leaves /\ state_root' = state_root)]_vars

\* the height of the upstream block that carries transaction id
HeightOfTx(id) ==
    CHOOSE h \in 1..Len(chain) : \E i \in 1..chain[h].ntx : TxId(h, i) = id

\* C9: the leaf log is in non-decreasing order of the height of the block that
\* carried each transaction.
C9_LeavesInHeightOrder ==
    \A i, j \in 1..Len(leaves) :
        i < j => HeightOfTx(leaves[i]) <= HeightOfTx(leaves[j])

\* C10: after a BurnBlock event at height h is applied, every block that was
\* stored soft with height <= h is hard, the burn block is stored as hard if
\* its hash was not stored before, and every stored block above h keeps its
\* finality.
C10_BurnBlockPromotes ==
    [][HandledOk("BurnBlock") =>
          /\ \A k \in DOMAIN db_blocks :
                 /\ k \in DOMAIN db_blocks'
                 /\ (db_blocks[k].state = "soft" /\ db_blocks[k].height <= Handled.height)
                        => db_blocks'[k].state = "hard"
                 /\ db_blocks[k].height > Handled.height
                        => db_blocks'[k].state = db_blocks[k].state
          /\ Handled.hash \notin DOMAIN db_blocks =>
                 /\ Handled.hash \in DOMAIN db_blocks'
                 /\ db_blocks'[Handled.hash] =
                        [height |-> Handled.height, type |-> "burn_block",
                         state |-> "hard", created_at |-> Handled.timestamp]
      ]_vars

\* a BurnBlock event at height h was applied; a microblock row at or below h
\* is hard (promoted) and a row above h is still soft
C10_Witness ==
    /\ last_result.ok
    /\ last_result.event.kind = "BurnBlock"
    /\ \E k \in DOMAIN db_blocks :
           /\ db_blocks[k].type = "microblock"
           /\ db_blocks[k].state = "hard"
           /\ db_blocks[k].height <= last_result.event.height
    /\ \E k \in DOMAIN db_blocks :
           /\ db_blocks[k].height > last_result.event.height
           /\ db_blocks[k].state = "soft"

\* C11: across handle_event calls a block whose finality is hard stays hard,
\* also when a Microblock event for the same hash is applied later, and no
\* stored block row is deleted.
C11_HardStaysHard ==
    [][\A k \in DOMAIN db_blocks :
          /\ k \in DOMAIN db_blocks'
          /\ db_blocks[k].state = "hard" => db_blocks'[k].state = "hard"
      ]_vars

\* a Microblock event with transactions was applied for a hash whose row is
\* hard, and the row is hard afterwards
C11_Witness ==
    /\ last_result.ok
    /\ last_result.event.kind = "Microblock"
    /\ Len(last_result.event.txs) > 0
    /\ last_result.event.hash \in DOMAIN db_blocks
    /\ db_blocks[last_result.event.hash].state = "hard"
    /\ Cardinality(DOMAIN db_blocks) = 2

\* C12: applying a BurnBlock event, successfully or not, leaves the Merkle
\* leaf log, the Merkle root and the transactions table unchanged.
C12_BurnBlockFrame ==
    [][HandledKind = "BurnBlock" =>
          /\ leaves' = leaves
          /\ state_root' = state_root
          /\ db_txs' = db_txs
      ]_vars

\* a BurnBlock event was applied (it promoted a microblock row) while the
\* leaf log and the transactions table were not empty
C12_Witness ==
    /\ last_result.ok
    /\ last_result.event.kind = "BurnBlock"
    /\ leaves # <<>>
    /\ state_root = calculate_root(leaves)
    /\ state_root # initial_root
    /\ DOMAIN db_txs # {}
    /\ \E k \in DOMAIN db_blocks :
           db_blocks[k].type = "microblock" /\ db_blocks[k].state = "hard"

---------------------------------------------------------------------------
(* Properties of the drift / circuit-breaker monitor *)

\* the step is a check_health call, an ingest_gateway_telemetry call, a
\* get_direct_exit_status call
HealthStep == heartbeat.pc = "health" /\ heartbeat' # heartbeat
TelemetryStep == heartbeat.pc = "telemetry" /\ heartbeat' # heartbeat
ExitStatusStep ==
    /\ heartbeat' = heartbeat
    /\ last_check' # last_check
    /\ last_check'.kind = "exit_status"

\* max(0, x)
Max0(x) == IF x < 0 THEN 0 ELSE x

\* C13: when a height-drift check completes (returns Ok) with
\* drift = max(0, external - processed): if drift > 2 the safety flag is set
\* and the stored drift is that drift; if drift <= 2 and the flag was set
\* before the check, the flag is clear afterwards.
C13_DriftCheckOutcome ==
    [][(HealthStep /\ last_check'.result = "ok") =>
          LET d == Max0(last_check'.current - last_check'.processed)
          IN  /\ d > 2 => (safety_mode' = <<TRUE>> /\ drift' = <<d>>)
              /\ (d <= 2 /\ safety_mode = <<TRUE>>) => safety_mode' = <<>>
      ]_vars

\* C14: a telemetry check that returns Ok sets the flag with drift 999 when
\* successes + failures > 100 and failures / (successes + failures) > 10%;
\* no telemetry check changes the flag or the drift otherwise, none changes
\* them to anything else, and none clears a set flag.
C14_TelemetryBreaker ==
    [][TelemetryStep =>
          LET total == last_check'.success + last_check'.failure
              over  == total > 100 /\ 100 * last_check'.failure > 10 * total
          IN  /\ (last_check'.result = "ok" /\ over) =>
                     /\ safety_mode' = <<TRUE>>
                     /\ drift' = <<999>>
              /\ ~over => (safety_mode' = safety_mode /\ drift' = drift)
              /\ (safety_mode' # safety_mode \/ drift' # drift) =>
                     (safety_mode' = <<TRUE>> /\ drift' = <<999>>)
              /\ safety_mode = <<TRUE>> => safety_mode' = <<TRUE>>
      ]_vars

\* the breaker tripped on 101 verifications of which 11 failed, over a
\* height-drift trip that had stored another drift
C14_Witness ==
    /\ last_check.kind = "telemetry"
    /\ last_check.result = "ok"
    /\ last_check.success = 90
    /\ last_check.failure = 11
    /\ safety_mode = <<TRUE>>
    /\ drift = <<999>>
    /\ Len(events) = 2

\* C15: the flag key and the drift key are present or absent together, and a
\* stored drift is greater than the threshold 2.
C15_FlagAndDriftTogether ==
    /\ safety_mode \in {<<>>, <<TRUE>>}
    /\ safety_mode = <<TRUE>> <=> drift # <<>>
    /\ drift # <<>> => drift[1] > 2

\* the telemetry breaker tripped, then a height-drift check tripped with the
\* smallest drift that trips: flag and drift were written together again
C15_Witness ==
    /\ safety_mode = <<TRUE>>
    /\ drift = <<3>>
    /\ events = <<"safety_mode_triggered", "safety_mode_triggered">>

\* C16: while safety mode is set, the stored drift is 999 exactly when the
\* latest trigger came from the telemetry circuit breaker.
C16_SentinelMarksTelemetry ==
    safety_mode = <<TRUE>> =>
        (drift = <<999>> <=> last_trigger = "telemetry")

\* C17: a message is published exactly when the flag changes value:
\* safety_mode_triggered on clear-to-set, safety_mode_cleared on
\* set-to-clear, nothing while the flag keeps its value (so the published
\* sequence alternates).
C17_PublishOnTransition ==
    [][/\ (safety_mode = <<>> /\ safety_mode' = <<TRUE>>) =>
              events' = Append(events, "safety_mode_triggered")
       /\ (safety_mode = <<TRUE>> /\ safety_mode' = <<>>) =>
              events' = Append(events, "safety_mode_cleared")
       /\ safety_mode' = safety_mode => events' = events
      ]_vars

\* C18: a get_direct_exit_status call that answers reports eligibility
\* exactly when the flag is set at the time of the call, whatever the user
\* address, and changes no state.
C18_ExitStatusFollowsFlag ==
    [][(ExitStatusStep /\ last_check'.result = "ok") =>
          /\ last_check'.eligible <=> (safety_mode = <<TRUE>>)
          /\ safety_mode' = safety_mode
          /\ drift' = drift
          /\ events' = events
      ]_vars

\* C19: a height-drift check whose RPC or database read fails leaves the
\* flag, the drift and the channel as they are; the loop goes on to the
\* telemetry check and from there to the next tick's health check; the
\* heartbeat task never leaves the loop.
C19_FailedCheckChangesNothing ==
    [][/\ (HealthStep /\ last_check'.result \in {"rpc_error", "db_error"}) =>
              /\ safety_mode' = safety_mode
              /\ drift' = drift
              /\ events' = events
              /\ heartbeat'.pc = "telemetry"
       /\ TelemetryStep => heartbeat'.pc = "health"
       /\ heartbeat'.pc \in {"health", "telemetry"}
      ]_vars

\* the second tick's check ran, and failed on the database read, after the
\* first tick's checks had failed too and with safety mode set in between
C19_Witness ==
    /\ last_check.kind = "health"
    /\ last_check.result = "db_error"
    /\ heartbeat.ticks = 2
    /\ heartbeat.pc = "telemetry"
    /\ safety_mode = <<TRUE>>
    /\ drift = <<999>>

\* C20: calculate_drift(current, processed) is max(0, current - processed):
\* the difference when current >= processed, 0 otherwise, never negative or
\* wrapped; drift(100,98) = 2, drift(100,102) = 0, drift(100,100) = 0.
C20_DriftIsSaturatingDifference ==
    drift_call.result # <<>> =>
        LET c == drift_call.current
            p == drift_call.processed
            d == drift_call.result[1]
        IN  /\ d = Max0(c - p)
            /\ d >= 0
            /\ d <= c
            /\ (c = 100 /\ p = 98) => d = 2
            /\ (c = 100 /\ p = 102) => d = 0
            /\ (c = 100 /\ p = 100) => d = 0

\* the call calculate_drift(100, 102) returned 0
C20_Witness ==
    /\ drift_call.current = 100
    /\ drift_call.processed = 102
    /\ drift_call.result = <<0>>

---------------------------------------------------------------------------
(* Properties of proofs with a replaced root *)

\* roots a tampered proof may carry: the empty root, malformed strings, the
\* roots of other leaf logs, the other tracker's root, a leaf hash
TamperedRoots ==
    {initial_root, Fmt0x(<<"wrong">>), <<"0x0000">>, <<>>, twin_root}
        \cup {calculate_root(lv) : lv \in SeqsUpTo(LeafValues, 3)}
        \cup {calculate_root(SubSeq(leaves, 1, k)) : k \in 0..Len(leaves)}

\* C30: a proof returned by generate_merkle_proof, with its root replaced by
\* any different string, is rejected by verify_merkle_proof.
C30_TamperedRootRejected ==
    \A v \in LeafValues :
        LET p == generate_merkle_proof(leaves, state_root, v) IN
        p # None =>
            \A r \in TamperedRoots :
                r # p.root => ~verify_merkle_proof([p EXCEPT !.root = r])

\* a log of three leaves (odd, the last paired with itself): the proof of
\* its last leaf verifies, and the same proof with the root the log had
\* before that leaf was appended does not
C30_Witness ==
    /\ Len(leaves) = 3
    /\ leaves[3] # leaves[1]
    /\ verify_merkle_proof(generate_merkle_proof(leaves, state_root, leaves[3]))
    /\ calculate_root(SubSeq(leaves, 1, 2)) # state_root
    /\ ~verify_merkle_proof(
           [generate_merkle_proof(leaves, state_root, leaves[3])
               EXCEPT !.root = calculate_root(SubSeq(leaves, 1, 2))])

---------------------------------------------------------------------------
(* Properties of the rebalance sweep *)

\* the vaults of a sweep that are over the threshold
OverVaults(vaults) == {i \in 1..Len(vaults) : vaults[i].ltv_ratio > 850}

\* how often message was signed in a sweep
SignedCount(signed, message) ==
    Cardinality({j \in 1..Len(signed) : signed[j] = <<"sig", message>>})

\* C28: a sweep signs one rebalance transaction for each fetched vault whose
\* loan-to-value ratio is strictly above 0.85 and none for a vault at or
\* below it, and after the sweep signs exactly one bounty-success signal if
\* at least one rebalance was signed, and none otherwise
C28_RebalanceSweep ==
    LET vaults == sweep.vaults
        signed == sweep.signed
        over   == OverVaults(vaults)
        bounty == IF over = {} THEN 0 ELSE 1
    IN  /\ \A id \in VaultIds :
               SignedCount(signed, "rebalance-" \o id)
                   = Cardinality({i \in over : vaults[i].vault_id = id})
        /\ SignedCount(signed, "agent-risk:signal-bounty-success") = bounty
        /\ Len(signed) = Cardinality(over) + bounty
        /\ bounty = 1 => signed[Len(signed)] = <<"sig", "agent-risk:signal-bounty-success">>

\* a sweep over a vault at the threshold, one just over it and one under it
C28_Witness ==
    /\ Len(sweep.vaults) = 3
    /\ \E i, j, k \in 1..3 :
           /\ sweep.vaults[i].ltv_ratio = 850
           /\ sweep.vaults[j].ltv_ratio = 851
           /\ sweep.vaults[k].ltv_ratio = 800
    /\ Len(sweep.signed) = 2

---------------------------------------------------------------------------
(* Properties of the tracker under concurrent callers *)

\* C29: under any interleaving of batch updates, initial-leaf loads, root
\* reads and proof generations, every root returned is the reference root
\* of the leaf log of the last completed write (the empty log before any),
\* and every proof returned verifies, its path and its root being those of
\* that one leaf log
C29_ReadsSeeCompletedWrites ==
    /\ last_answer.kind = "root" =>
           last_answer.root = RefRoot(completed_log)
    /\ last_answer.kind = "proof" =>
           /\ verify_merkle_proof(last_answer.proof)
           /\ Position(completed_log, last_answer.proof.leaf) >= 0
           /\ last_answer.proof.root = RefRoot(completed_log)
           /\ last_answer.proof.path
                  = ProofPath(LeafHashes(completed_log),
                              Position(completed_log, last_answer.proof.leaf))

\* a root is read while a write is between its push and its root assignment
C29_Witness ==
    /\ last_answer.kind = "root"
    /\ \E u \in Threads : threads[u].pc = "set_root"
    /\ calculate_root(leaves) # state_root
    /\ completed_log # <<>>

---------------------------------------------------------------------------
(* Properties of the FSOC sequencer *)

Returned == last_validation.kind = "returned"

\* the call of handler c is past the timestamp comparison
PastTimestampRule(c) ==
    calls[c].pc \in {"count_sender", "count_payload"}
        \/ calls[c].phase = "liquidation"

\* C21: a request whose timestamp is strictly earlier than the latest event
\* time the cache holds is rejected, and the timestamp rule rejects no
\* request whose timestamp is equal to or later than it (or when there is
\* no event time)
C21_TimestampRule ==
    /\ (Returned /\ last_validation.rule = "timestamp") =>
           /\ last_validation.result = "ok_false"
           /\ last_validation.event_time = latest_event_time_cache
           /\ last_validation.event_time # <<>>
           /\ last_validation.request.timestamp < last_validation.event_time[1]
    /\ (Returned /\ ~last_validation.failed /\ last_validation.event_time # <<>>
            /\ last_validation.request.timestamp < last_validation.event_time[1])
           => last_validation.rule = "timestamp"
    /\ \A c \in Callers :
           (PastTimestampRule(c) /\ calls[c].event_time # <<>>)
               => calls[c].request.timestamp >= calls[c].event_time[1]

\* a request at 100000 is rejected against the cached event time 101000
C21_Witness ==
    /\ Returned
    /\ last_validation.rule = "timestamp"
    /\ latest_event_time_cache = <<101000>>
    /\ \E c \in Callers :
           /\ PastTimestampRule(c)
           /\ calls[c].event_time = <<calls[c].request.timestamp>>

\* handler c's call makes its sender count, or its payload count, in this step
SenderStep(c) == calls[c].pc = "count_sender" /\ calls'[c].pc # "count_sender"
PayloadStep(c) == calls[c].pc = "count_payload" /\ calls'[c] # calls[c]

\* this step returns an error, or a rejection by rule, to handler c
FailsTo(c) ==
    /\ last_validation'.kind = "returned"
    /\ last_validation'.caller = c
    /\ last_validation'.result = "err"
RejectsBy(c, rule) ==
    /\ last_validation'.kind = "returned"
    /\ last_validation'.caller = c
    /\ last_validation'.result = "ok_false"
    /\ last_validation'.rule = rule

\* created_at lies within the w milliseconds preceding timestamp
Preceding(created_at, timestamp, w) ==
    created_at > timestamp - w /\ created_at <= timestamp

\* C22: the sender rule rejects exactly when more than 10 stored
\* transactions of the request's sender, with another tx id, were recorded
\* within the 60 seconds preceding the request timestamp
C22_SenderRule ==
    [][\A c \in Callers :
          (SenderStep(c) /\ ~FailsTo(c)) =>
              (RejectsBy(c, "sender")
                 <=> Cardinality({k \in DOMAIN db_txs :
                        /\ k # calls[c].request.tx_id
                        /\ db_txs[k].sender = calls[c].request.sender
                        /\ Preceding(db_txs[k].created_at,
                                     calls[c].request.timestamp, 60000)}) > 10)]_vars

\* C23: the payload rule rejects exactly when a stored transaction with the
\* request's payload and another tx id was recorded within the 5 seconds
\* preceding the request timestamp
C23_PayloadRule ==
    [][\A c \in Callers :
          (PayloadStep(c) /\ ~FailsTo(c)) =>
              (RejectsBy(c, "payload")
                 <=> \E k \in DOMAIN db_txs :
                        /\ k # calls[c].request.tx_id
                        /\ db_txs[k].payload = calls[c].request.payload
                        /\ Preceding(db_txs[k].created_at,
                                     calls[c].request.timestamp, 5000))]_vars

\* C24: once the latest-event-time cache holds a value, the value never
\* changes
C24_CacheNeverChanges ==
    [][latest_event_time_cache # <<>>
           => latest_event_time_cache' = latest_event_time_cache]_vars

\* C25: Ok(false) is returned only for a rejection by one of the three
\* rules, Ok(true) only when none of them fires, a failed query gives Err
\* and nothing else does, and the handler answers Success (200),
\* Rejected (400) and Error (500)
C25_OutcomesAndResponses ==
    Returned =>
        LET v  == last_validation
            ts == v.request.timestamp
            early   == v.event_time # <<>> /\ ts < v.event_time[1]
            spam    == v.sender_count # <<>> /\ v.sender_count[1] > 10
            copycat == v.payload_count # <<>> /\ v.payload_count[1] > 0
        IN  /\ v.result = "ok_false" =>
                   \/ v.rule = "timestamp" /\ early
                   \/ v.rule = "sender" /\ spam
                   \/ v.rule = "payload" /\ copycat
            /\ v.result = "ok_true" =>
                   /\ ~early /\ ~spam /\ ~copycat
                   /\ v.sender_count # <<>> /\ v.payload_count # <<>>
            /\ v.failed <=> v.result = "err"
            /\ v.result = "ok_true" <=> v.response = [code |-> 200, status |-> "Success"]
            /\ v.result = "ok_false" <=> v.response = [code |-> 400, status |-> "Rejected"]
            /\ v.result = "err" <=> v.response = [code |-> 500, status |-> "Error"]

\* the payload count fails after the sender count passed: Error, 500
C25_Witness ==
    /\ Returned
    /\ last_validation.failed
    /\ last_validation.sender_count = <<10>>
    /\ last_validation.response.code = 500

\* a step of a validate_transaction call
ValidationStep == calls' # calls \/ last_validation'.kind = "returned"

\* C26: a step of validate_transaction leaves the blocks and transactions
\* tables as they are, and changes the latest-event-time cache only by
\* filling it when it is empty
C26_ValidationFrame ==
    [][ValidationStep =>
           /\ db_blocks' = db_blocks
           /\ db_txs' = db_txs
           /\ (latest_event_time_cache' = latest_event_time_cache
                  \/ latest_event_time_cache = <<>>)]_vars

\* C27: a request that passes the timestamp, sender and payload rules is
\* accepted when its payload contains "liquidate", also when its timestamp
\* is within 500 ms of the cached latest event time
C27_LiquidationAdvisory ==
    (Returned /\ ~last_validation.failed
        /\ ContainsLiquidate(last_validation.request.payload)
        /\ last_validation.payload_count = <<0>>)
    => /\ last_validation.result = "ok_true"
       /\ last_validation.response.status = "Success"

\* a liquidation at the cached event time is warned about and accepted
C27_Witness ==
    /\ Returned
    /\ last_validation.warned
    /\ last_validation.result = "ok_true"
    /\ latest_event_time_cache = <<last_validation.request.timestamp>>

---------------------------------------------------------------------------
(* Properties of proofs in the hands of clients *)

\* some sibling of the proof's path does not decode
HasUndecodableSibling(proof) ==
    \E i \in 1..Len(proof.path) : ~HexDecode(proof.path[i].hash).ok

\* C31: verify_merkle_proof answers with a boolean for every proof, false
\* when a sibling is not decodable hex; it changes no tracker state; and a
\* proof as generated verifies whatever the tracker has appended since
C31_VerifyTotalAndStateless ==
    [][(held_proof'.kind = "verified" /\ held_proof.kind = "proof") =>
           /\ held_proof'.valid \in BOOLEAN
           /\ HasUndecodableSibling(held_proof.proof) => ~held_proof'.valid
           /\ held_proof.genuine => held_proof'.valid
           /\ leaves' = leaves /\ state_root' = state_root]_vars

\* a proof generated for two leaves verifies after the log grew to five
C31_Witness ==
    /\ held_proof.kind = "verified"
    /\ held_proof.genuine
    /\ held_proof.valid
    /\ Len(held_proof.proof.path) = 1
    /\ Len(leaves) = 5
    /\ held_proof.proof.root # state_root

\* C32: generate_merkle_proof's proof carries, and generate_proof returns,
\* the tracker's current root, which is the root of the whole leaf log,
\* also for a leaf of an earlier batch; for an absent key generate_proof
\* returns the current root and "{}"
C32_ProofCarriesCurrentRoot ==
    [][held_proof' # held_proof =>
          /\ (held_proof'.kind = "proof" /\ held_proof'.genuine) =>
                 /\ held_proof'.proof.root = state_root
                 /\ held_proof'.proof.root = RefRoot(leaves)
          /\ held_proof'.kind = "hash_and_proof" =>
                 /\ held_proof'.hash = state_root
                 /\ held_proof'.hash = RefRoot(leaves)
                 /\ Occurs(leaves, held_proof'.key) =>
                        /\ held_proof'.proof # <<"{}">>
                        /\ held_proof'.proof[2].leaf = held_proof'.key
                        /\ held_proof'.proof[2].root = state_root
                 /\ ~Occurs(leaves, held_proof'.key) => held_proof'.proof = <<"{}">>]_vars

\* generate_proof for the first leaf of a log that later batches extended
C32_Witness ==
    /\ held_proof.kind = "hash_and_proof"
    /\ Len(leaves) >= 3
    /\ batch_len = 1
    /\ held_proof.key = leaves[1]
    /\ leaves[Len(leaves)] # leaves[1]
    /\ held_proof.hash = state_root
    /\ held_proof.hash # calculate_root(SubSeq(leaves, 1, 1))

---------------------------------------------------------------------------
(* Properties of the poller and the applier loop *)

\* the poller enqueues in this step
Enqueues == Len(queue') = Len(queue) + 1

\* C33: a poll cycle with upstream height L and processed height P visits
\* nothing when L <= P and else the heights P+1..L in ascending order; for
\* each fetched height it enqueues the BurnBlock event and then, exactly
\* when the upstream block carries a transaction, the Microblock event of
\* the same height and hash
C33_PollCycleEvents ==
    [][/\ (poller.pc = "idle" /\ polls' # polls) =>
              \/ poller' = PollerIdle
              \/ /\ Len(chain) > ProcessedHeight(db_blocks)
                 /\ poller'.pc = "fetch"
                 /\ poller'.height = ProcessedHeight(db_blocks) + 1
                 /\ poller'.latest = Len(chain)
       /\ (poller.pc # "idle" /\ poller'.pc = "fetch") =>
              poller'.height = poller.height + 1
       /\ (poller.pc = "fetch" /\ Enqueues) =>
              /\ queue' = Append(queue, BurnBlockEvent(poller.height))
              /\ chain[poller.height].ntx > 0 <=> poller'.pc = "send_micro"
       /\ (poller.pc = "send_micro" /\ Enqueues) =>
              /\ queue' = Append(queue, MicroblockEvent(poller.height,
                                                        UpstreamTxs(poller.height)))
      ]_vars

\* the block of height h is stored, or an event of height h is queued
Applied(h) == BlockHash(h) \in DOMAIN db_blocks
Queued(h) == \E i \in 1..Len(queue) : queue[i].height = h

\* no poll cycle is under way and the applier has nothing left to apply
Quiescent == poller.pc = "idle" /\ queue = <<>>

\* C34: a height whose block was not applied lies in the window of the next
\* poll cycle, which starts above the processed height
C34_MissedHeightInNextWindow ==
    Quiescent =>
        \A h \in 1..Len(chain) :
            ~Applied(h) => h > ProcessedHeight(db_blocks)

\* C35: whenever handle_event returns Ok, the cached root equals the
\* tracker's root
C35_CachedRootIsCurrent ==
    (last_result.event.kind # "none" /\ last_result.ok)
        => redis_root = state_root

\* C36: once the processed height is at least h (and nothing is queued or
\* being polled), every transaction of the upstream block of height h is
\* stored and its id is a Merkle leaf
C36_ProcessedHeightHasItsTxs ==
    Quiescent =>
        \A h \in 1..Len(chain) :
            ProcessedHeight(db_blocks) >= h =>
                \A i \in 1..chain[h].ntx :
                    /\ TxId(h, i) \in DOMAIN db_txs
                    /\ Occurs(leaves, TxId(h, i))

\* C37: a Microblock event whose database transaction does not commit makes
\* handle_event return an error and leaves the leaf log, the root, the
\* cached root and both tables as they were
C37_FailedMicroblockChangesNothing ==
    [][(HandledKind = "Microblock" /\ ~last_result'.ok) =>
           /\ leaves' = leaves
           /\ state_root' = state_root
           /\ redis_root' = redis_root
           /\ db_blocks' = db_blocks
           /\ db_txs' = db_txs]_vars

\* the Microblock event of a block with two transactions failed after an
\* earlier Microblock event had been applied
C37_Witness ==
    /\ last_result.event.kind = "Microblock"
    /\ ~last_result.ok
    /\ Len(last_result.event.txs) = 2
    /\ last_result.event.txs[1].tx_id \notin DOMAIN db_txs
    /\ ~Occurs(leaves, last_result.event.txs[1].tx_id)
    /\ Len(leaves) > 0
    /\ redis_root = state_root

\* C38: the applier takes the event at the head of the queue whatever
\* became of the one before, a failed event is dropped and the rest of the
\* queue keeps its order; as long as an event is queued the applier can
\* take it, and an idle poller can start its next cycle
C38_LoopsSurviveErrors ==
    /\ [][HandledKind # "none" =>
             /\ queue # <<>>
             /\ Handled = Head(queue)
             /\ queue' = Tail(queue)]_vars
    /\ [](queue # <<>> => ENABLED HandleEvent)
    /\ []((poller.pc = "idle" /\ polls < MaxPolls) => ENABLED PollBegin)

\* the BurnBlock event of height 1 failed, and the Microblock event queued
\* behind it was applied all the same
C38_Witness ==
    /\ last_result.ok
    /\ last_result.event.kind = "Microblock"
    /\ last_result.event.height = 1
    /\ db_blocks[BlockHash(1)].type = "microblock"
    /\ polls = 1


C40_StatusNotTorn ==
    (/\ status_query.pc = "done"
     /\ status_query.code = 200
     /\ status_query.gets_ok) =>
        \/ status_query.safety_mode /\ status_query.drift # 0
        \/ ~status_query.safety_mode /\ status_query.drift = 0

====
